---- MODULE Spec2Model ----
(***************************************************************************)
(* A model of the Biome server (src/src-tauri/server-components/server.py, *)
(* safety.py and src/server-components/engine_manager.py): the websocket   *)
(* session of /ws, the engine orchestrator, the seed safety cache with its *)
(* HTTP surface, and the executors the calls run on.                       *)
(*                                                                         *)
(* A coroutine is cut into steps at its awaits: what runs between two      *)
(* awaits is one action.  Sending a message to the client never blocks in  *)
(* the model, so a send does not end a step.                               *)
(***************************************************************************)
EXTENDS Integers, Sequences, FiniteSets, TLC

\* ------------------------------------------------------------------ bounds

\* The engine's rolling-buffer size.  engine_manager.py:28 sets 4096; the
\* model runs a small buffer so that the frame ceiling is reached.
N_FRAMES == 4

\* Websocket connections that exist side by side.
NSessions == 2

\* Coroutines that hand calls to the executors at the same time.
NCallers == 2

\* Messages a client may have in flight towards one session.
MaxInbox == 2

\* Control messages one client sends (their ts runs from 1 to MaxTs).
MaxTs == 3

\* Calls in flight on the default thread pool of asyncio.to_thread.
MaxPool == 2

\* Periods of five seconds a load of the engine may take before the model
\* stops counting them.
MaxQuiet == 2

\* The last reading of time.time() that differs from the one before.
MaxNow == 1

\* The longest list of paths given to check_batch.
MaxPaths == 3

\* The largest batch_size given to check_batch.
MaxBatch == 2

\* Seconds a client in the handshake lets go by before a late message.
Period == 30

\* Seconds since its connection up to which a handshake is followed.
MaxAge == 90

\* ------------------------------------------------------------ value spaces

Sessions == 1..NSessions

\* The connection of the specifications in which one client plays alone.
Solo == {s \in Sessions : \A t \in Sessions : s <= t}

\* Image contents a seed file may have; 0 stands for "no such file".
Contents == {1, 2}
NoFile == 0

Dirs == {"default", "uploads"}
Names == {"default.png", "a.png"}
Paths == {<<"default", "default.png">>, <<"uploads", "default.png">>, <<"uploads", "a.png">>}

Models == {"Overworld/Waypoint-1-Small", "other/model"}
Prompts == {" ", "castle"}

None == [none |-> TRUE]

\* --------------------------------------------------------- program constants

DEFAULT_MODEL_URI == "Overworld/Waypoint-1-Small"
DEFAULT_PROMPT == "First-person shooter gameplay footage"
DEFAULT_INITIAL_SEED == "default.png"
DEFAULT_SEEDS_DIR == "default"
UPLOADS_DIR == "uploads"

\* asyncio.wait_for(websocket.receive_text(), timeout=60.0)
HANDSHAKE_TIMEOUT == 60

\* Session.max_frames
max_frames == N_FRAMES - 2

\* ThreadPoolExecutor(max_workers=1, thread_name_prefix="cuda-thread")
cuda_max_workers == 1

\* BUTTON_CODES: A-Z, 0-9 and the special keys.
Letters == <<"A", "B", "C", "D", "E", "F", "G", "H", "I", "J", "K", "L", "M",
             "N", "O", "P", "Q", "R", "S", "T", "U", "V", "W", "X", "Y", "Z">>
Digits == <<"0", "1", "2", "3", "4", "5", "6", "7", "8", "9">>
SpecialKeys == [UP |-> 38, DOWN |-> 40, LEFT |-> 37, RIGHT |-> 39, SHIFT |-> 16,
                CTRL |-> 17, SPACE |-> 32, TAB |-> 9, ENTER |-> 13,
                MOUSE_LEFT |-> 1, MOUSE_RIGHT |-> 2, MOUSE_MIDDLE |-> 4]

BUTTON_CODES ==
    [b \in {Letters[i] : i \in 1..26} |-> 64 + (CHOOSE i \in 1..26 : Letters[i] = b)]
    @@ [b \in {Digits[i] : i \in 1..10} |-> 47 + (CHOOSE i \in 1..10 : Digits[i] = b)]
    @@ SpecialKeys

\* str.upper() on the button names the model's clients send.
Upper(b) ==
    CASE b = "w" -> "W"
      [] b = "shift" -> "SHIFT"
      [] OTHER -> b

\* The button set of a control message: names outside the table are dropped.
ButtonSet(buttons) ==
    {BUTTON_CODES[Upper(buttons[i])] :
        i \in {j \in DOMAIN buttons : Upper(buttons[j]) \in DOMAIN BUTTON_CODES}}

\* world_engine.CtrlInput(button=buttons, mouse=(mouse_dx, mouse_dy))
CtrlInput(m) == [button |-> ButtonSet(m.buttons), mouse |-> <<m.mouse_dx, m.mouse_dy>>]

\* hashlib.sha256 of a file's content: one digest per content, none shared.
compute_file_hash(c) == 1000 + 37 * c

\* The classifier's cumulative "low or worse" score of a content, in percent.
LowScore(c) == IF c = 1 THEN 10 ELSE 50

\* SafetyChecker.check_image / check_batch on a readable image.
IsSafe(c) == LowScore(c) < 50

\* ------------------------------------------------------------------ state

VARIABLES
    \* the seed files under seeds/default and seeds/uploads, and the "files"
    \* mapping and the "last_scan" time of the pickled blob .seeds_cache.bin
    files, cache_file, last_scan,
    \* server.py: safe_seeds_cache, filename -> {hash, is_safe, path}
    safe_seeds_cache,
    \* server.py: world_engine, the WorldEngineManager (engine, seed_frame,
    \* model_uri, current_prompt, engine_warmed_up)
    world_engine,
    \* one websocket_endpoint coroutine per connection: where it stands (pc),
    \* its Session (frame_count) and its locals (paused, msg, ...)
    session,
    \* the client side of each websocket: messages on their way to the
    \* server, what the server's last step sent, the client's control clock
    inbox, out, clock,
    \* history: what the running get_latest_control has read so far, the id
    \* of the last frame sent, and where the seed slot's tensor came from
    drained, emitted_id, seed_origin,
    \* the executors: the cuda thread's work queue and running calls, the
    \* calls on asyncio.to_thread's pool and on the event loop itself, each
    \* caller's pending call, and the next submission number
    cuda_queue, cuda_running, pool_running, loop_running, call, ticket,
    \* the holders of the manager's _model_load_lock and of rescan_lock
    \* (0: nobody), and where each coroutine besides the sessions stands
    model_load_lock, rescan_lock, coro,
    \* what time.time() returns
    now,
    \* server.py: safety_checker, the SafetyChecker (model, processor,
    \* current_device) and the thread that holds its _lock (0: nobody)
    safety_checker

fsVars == <<files, cache_file, last_scan>>
clientVars == <<inbox, out, clock>>
historyVars == <<drained, emitted_id, seed_origin>>
executorVars == <<cuda_queue, cuda_running, pool_running, loop_running, call, ticket>>
wsVars == <<world_engine, session, clientVars, historyVars>>
taskVars == <<model_load_lock, rescan_lock, coro, now, safety_checker>>

vars == <<fsVars, safe_seeds_cache, wsVars, executorVars, taskVars>>

\* ------------------------------------------------------------- seed cache

\* What is in .seeds_cache.bin after open(CACHE_FILE, "wb") and before
\* pickle.dump has written everything: not a pickle.
Truncated == "<truncated>"

Exists(fs, p) == p \in Paths /\ fs[p] # NoFile

\* glob_seeds(directory): the seed files of one directory.
glob_seeds(fs, dir) == {p \in Paths : p[1] = dir /\ fs[p] # NoFile}

\* A cache record as rescan, validate and upload build it at time t from a
\* file's content (hash of the content, verdict of the classifier on it).
\* A file that cannot be hashed gets the empty hash (0 here) and is unsafe.
SeedRecord(c, p, t) ==
    IF c = NoFile
    THEN [hash |-> 0, is_safe |-> FALSE, path |-> p, checked_at |-> t]
    ELSE [hash |-> compute_file_hash(c), is_safe |-> IsSafe(c), path |-> p,
          checked_at |-> t]

\* {p.name: str(p)} over default/ then uploads/: for a basename present in
\* both, the later assignment (uploads/) stays.
current_file_map(fs) ==
    [f \in {p[2] : p \in glob_seeds(fs, DEFAULT_SEEDS_DIR) \cup glob_seeds(fs, UPLOADS_DIR)} |->
        IF fs[<<UPLOADS_DIR, f>>] # NoFile THEN <<UPLOADS_DIR, f>> ELSE <<DEFAULT_SEEDS_DIR, f>>]

\* rescan_seeds() at time t: the cache it returns ("files", "last_scan"),
\* which it saves, and the filenames it gave to the classifier.
rescan_seeds(fs, t) ==
    LET m == current_file_map(fs)
    IN [files |-> [f \in DOMAIN m |-> SeedRecord(fs[m[f]], m[f], t)],
        last_scan |-> t, saved |-> TRUE, classified |-> DOMAIN m]

\* A validation that keeps the entries whose files are gone.
validate_keeping_missing(fs, cache, t) ==
    LET cached == cache.files
    IN IF DOMAIN cached = {} THEN rescan_seeds(fs, t)
       ELSE
        LET missing_files == {f \in DOMAIN cached : ~Exists(fs, cached[f].path)}
            hash_mismatches ==
                {f \in DOMAIN cached \ missing_files :
                    \/ cached[f].hash = 0
                    \/ compute_file_hash(fs[cached[f].path]) # cached[f].hash}
            m == current_file_map(fs)
            new_filenames == DOMAIN m \ DOMAIN cached
        IN IF hash_mismatches # {} THEN rescan_seeds(fs, t)
           ELSE [files |-> [f \in new_filenames |-> SeedRecord(fs[m[f]], m[f], t)]
                           @@ cached,
                 last_scan |-> IF new_filenames # {} THEN t ELSE cache.last_scan,
                 saved |-> new_filenames # {}, classified |-> new_filenames]

\* validate_and_update_cache() at time t: the cache it returns for the
\* loaded blob `cache` and the file system fs, whether it saved it, and
\* the filenames it gave to the classifier.
validate_and_update_cache(fs, cache, t) ==
    LET cached == cache.files
    IN IF DOMAIN cached = {} THEN rescan_seeds(fs, t)
       ELSE
        LET missing_files == {f \in DOMAIN cached : ~Exists(fs, cached[f].path)}
            hash_mismatches ==
                {f \in DOMAIN cached \ missing_files :
                    \/ cached[f].hash = 0
                    \/ compute_file_hash(fs[cached[f].path]) # cached[f].hash}
            kept == [f \in DOMAIN cached \ missing_files |-> cached[f]]
            m == current_file_map(fs)
            new_filenames == DOMAIN m \ DOMAIN kept
            changed == missing_files # {} \/ new_filenames # {}
        IN IF hash_mismatches # {} THEN rescan_seeds(fs, t)
           ELSE [files |-> [f \in new_filenames |-> SeedRecord(fs[m[f]], m[f], t)]
                           @@ kept,
                 last_scan |-> IF changed THEN t ELSE cache.last_scan,
                 saved |-> changed, classified |-> new_filenames]

\* Records a client of POST /safety/set_cache may send for a filename.
ClientRecords(f) ==
    [hash : {compute_file_hash(c) : c \in Contents}, is_safe : BOOLEAN,
     path : {p \in Paths : p[2] = f}]

\* Bodies of POST /safety/set_cache: any filename -> record dictionary.
SetCacheRequests ==
    UNION {{d \in [D -> UNION {ClientRecords(f) : f \in D}] :
                \A f \in D : d[f] \in ClientRecords(f)} : D \in SUBSET Names}

\* load_seeds_cache(): the blob as a cache.  A blob that is not there or
\* cannot be unpickled gives the empty cache.
load_seeds_cache ==
    IF Truncated \in DOMAIN cache_file
    THEN [files |-> <<>>, last_scan |-> None]
    ELSE [files |-> cache_file, last_scan |-> last_scan]

\* POST /seeds/upload {filename, data}.  The file is written to uploads/,
\* hashed and classified; ok = FALSE is a classifier that raises (the model
\* failed to load): the file is removed again and nothing is recorded.
upload_seed(f, c, ok) ==
    /\ f \in Names /\ c \in Contents /\ ok \in BOOLEAN
    /\ LET file_path == <<UPLOADS_DIR, f>>
       IN IF ok
          THEN /\ files' = [files EXCEPT ![file_path] = c]
               /\ safe_seeds_cache' =
                      (f :> SeedRecord(c, file_path, now)) @@ safe_seeds_cache
               /\ cache_file' = safe_seeds_cache'
          ELSE /\ files' = [files EXCEPT ![file_path] = NoFile]
               /\ UNCHANGED <<safe_seeds_cache, cache_file>>
    /\ UNCHANGED last_scan
    /\ UNCHANGED <<wsVars, executorVars, taskVars>>

\* POST /seeds/rescan {force_full_rescan}.
rescan_seeds_endpoint(force_full) ==
    /\ LET cache == IF force_full THEN rescan_seeds(files, now)
                    ELSE validate_and_update_cache(files, load_seeds_cache, now)
       IN /\ cache_file' = IF cache.saved THEN cache.files ELSE cache_file
          /\ last_scan' = cache.last_scan
          /\ safe_seeds_cache' = cache.files
    /\ UNCHANGED <<files, wsVars, executorVars, taskVars>>

\* DELETE /seeds/{filename}: only a record whose path is under uploads/.
delete_seed(f) ==
    /\ f \in DOMAIN safe_seeds_cache
    /\ safe_seeds_cache[f].path[1] = UPLOADS_DIR
    /\ files' = [files EXCEPT ![safe_seeds_cache[f].path] = NoFile]
    /\ safe_seeds_cache' = [g \in DOMAIN safe_seeds_cache \ {f} |-> safe_seeds_cache[g]]
    /\ cache_file' = safe_seeds_cache'
    /\ UNCHANGED <<last_scan, wsVars, executorVars, taskVars>>

\* POST /safety/set_cache {seeds}: the in-memory cache becomes the body.
set_cache(seeds) ==
    /\ seeds \in SetCacheRequests
    /\ safe_seeds_cache' = seeds
    /\ UNCHANGED <<fsVars, wsVars, executorVars, taskVars>>

\* Time goes by: time.time() returns more than before.
Tick ==
    /\ now < MaxNow
    /\ now' = now + 1
    /\ UNCHANGED <<fsVars, safe_seeds_cache, wsVars, executorVars,
                   model_load_lock, rescan_lock, coro, safety_checker>>

\* The operator (or any other process) rewrites or removes a seed file.
EnvWrite(p, c) ==
    /\ files[p] # NoFile /\ c \in Contents /\ c # files[p]
    /\ files' = [files EXCEPT ![p] = c]
    /\ UNCHANGED <<cache_file, last_scan, safe_seeds_cache, wsVars, executorVars, taskVars>>

EnvRemove(p) ==
    /\ files[p] # NoFile
    /\ files' = [files EXCEPT ![p] = NoFile]
    /\ UNCHANGED <<cache_file, last_scan, safe_seeds_cache, wsVars, executorVars, taskVars>>

\* ------------------------------------------------------------ SafetyChecker

\* SafetyChecker.__init__: no model, no processor, nobody in _lock.
NewSafetyChecker ==
    [model |-> None, processor |-> None, current_device |-> None, lock |-> 0]

\* The result for an image that could not be loaded or classified; scores
\* are in percent.
UnsafeDefault ==
    [is_safe |-> FALSE, scores |-> [neutral |-> 0, low |-> 100, medium |-> 0, high |-> 0]]

\* predict_batch_values(img_batch): one score dictionary per image, in the
\* order of the batch; "low" is the cumulative probability of low or worse.
predict_batch_values(img_batch) ==
    [i \in DOMAIN img_batch |->
        [neutral |-> 100 - LowScore(img_batch[i]), low |-> LowScore(img_batch[i]),
         medium |-> LowScore(img_batch[i]) \div 5, high |-> 0]]

\* A check_image whose threshold lets a score of exactly one half through.
check_image_at_most(fs, image_path, fails) ==
    IF fs[image_path] = NoFile \/ fails THEN UnsafeDefault
    ELSE LET scores == predict_batch_values(<<fs[image_path]>>)[1]
         IN [is_safe |-> scores.low <= 50, scores |-> scores]

\* check_image(image_path), the try block: Image.open raises for a file
\* that is not there, predict_batch_values raises when fails.
check_image(fs, image_path, fails) ==
    IF fs[image_path] = NoFile \/ fails THEN UnsafeDefault
    ELSE LET scores == predict_batch_values(<<fs[image_path]>>)[1]
         IN [is_safe |-> scores.low < 50, scores |-> scores]

\* A check_batch that puts the results of the images it could load first.
check_batch_compacting(fs, image_paths, batch_size, fails) ==
    LET images == [i \in DOMAIN image_paths |-> fs[image_paths[i]]]
        valid_images == SelectSeq(images, LAMBDA img : img # NoFile)
        all_scores == predict_batch_values(valid_images)
    IN IF fails /\ valid_images # <<>>
       THEN [i \in DOMAIN image_paths |-> UnsafeDefault]
       ELSE [i \in DOMAIN image_paths |->
                IF i > Len(all_scores) THEN UnsafeDefault
                ELSE [is_safe |-> all_scores[i].low < 50, scores |-> all_scores[i]]]

\* check_batch(image_paths, batch_size), the try block: the images are
\* opened (None for one that fails), the loaded ones are scored batch by
\* batch, and the results are built along the images with score_idx.  A
\* predict_batch_values that raises (fails) makes every result the default.
check_batch(fs, image_paths, batch_size, fails) ==
    LET images == [i \in DOMAIN image_paths |-> fs[image_paths[i]]]
        valid_images == SelectSeq(images, LAMBDA img : img # NoFile)
        RECURSIVE scores_from(_)
        scores_from(i) ==
            IF i >= Len(valid_images) THEN <<>>
            ELSE LET last == IF i + batch_size < Len(valid_images)
                             THEN i + batch_size ELSE Len(valid_images)
                 IN predict_batch_values(SubSeq(valid_images, i + 1, last))
                        \o scores_from(i + batch_size)
        all_scores == scores_from(0)
        score_idx(k) == Cardinality({j \in 1..(k - 1) : images[j] # NoFile})
    IN IF fails /\ valid_images # <<>>
       THEN [i \in DOMAIN image_paths |-> UnsafeDefault]
       ELSE [k \in DOMAIN image_paths |->
                IF images[k] = NoFile THEN UnsafeDefault
                ELSE [is_safe |-> all_scores[score_idx(k) + 1].low < 50,
                      scores |-> all_scores[score_idx(k) + 1]]]

\* ---------------------------------------------------------------- messages

Status(code) == [type |-> "status", code |-> code]
ErrorMsg(message) == [type |-> "error", message |-> message]
Frame(id, ts) == [type |-> "frame", frame_id |-> id, client_ts |-> ts]

\* What a client puts into a control message.
Inputs ==
    {[buttons |-> <<"w">>, mouse_dx |-> 0, mouse_dy |-> 0],
     [buttons |-> <<"shift", "F13">>, mouse_dx |-> 3, mouse_dy |-> -2]}

\* ------------------------------------------------------ WorldEngineManager

\* WorldEngineManager.__init__
NewWorldEngine ==
    [engine |-> None, seed_frame |-> None, model_uri |-> DEFAULT_MODEL_URI,
     current_prompt |-> DEFAULT_PROMPT, engine_warmed_up |-> FALSE]

\* WorldEngine(model_uri, ...): a fresh engine holds no frame and no prompt.
\* generated counts the gen_frame calls since the last engine.reset().
NewEngine(m) == [model |-> m, generated |-> 0, appended |-> None, prompt |-> ""]

\* _unload_engine_sync
unload_engine(we) ==
    [we EXCEPT !.engine = None, !.seed_frame = None, !.engine_warmed_up = FALSE]

\* _normalize_model_uri
normalize_model_uri(we, m) == IF m # "" THEN m ELSE we.model_uri

\* dtype_attempts = [torch.bfloat16, torch.float16]
dtype_attempts == <<"bfloat16", "float16">>

\* What WorldEngine(...) does with one dtype: it returns an engine, raises
\* torch.OutOfMemoryError, or raises another exception.
AttemptOutcomes == {"ok", "OutOfMemoryError", "Exception"}

\* The outcome the construction would have with each dtype.
Constructions == [DOMAIN dtype_attempts -> AttemptOutcomes]

\* A loop over dtype_attempts that goes on to the next dtype after any
\* exception.
RECURSIVE try_dtypes_retry_any(_, _)
try_dtypes_retry_any(constructed, i) ==
    IF i > Len(dtype_attempts)
    THEN [tried |-> <<>>, built |-> FALSE, last_error |-> "", tasks |-> <<>>]
    ELSE IF constructed[i] = "ok"
    THEN [tried |-> <<dtype_attempts[i]>>, built |-> TRUE, last_error |-> "",
          tasks |-> <<"construct">>]
    ELSE LET rest == try_dtypes_retry_any(constructed, i + 1)
         IN [tried |-> <<dtype_attempts[i]>> \o rest.tried, built |-> rest.built,
             last_error |-> IF rest.last_error # "" THEN rest.last_error
                            ELSE constructed[i],
             tasks |-> <<"construct", "unload">> \o rest.tasks]

\* The loop "for dtype in dtype_attempts" from its i-th dtype on: the dtypes
\* tried, whether an engine was built, the last exception caught, and the
\* tasks run on the cuda thread.
RECURSIVE try_dtypes(_, _)
try_dtypes(constructed, i) ==
    IF i > Len(dtype_attempts)
    THEN [tried |-> <<>>, built |-> FALSE, last_error |-> "", tasks |-> <<>>]
    ELSE IF constructed[i] = "ok"
    THEN [tried |-> <<dtype_attempts[i]>>, built |-> TRUE, last_error |-> "",
          tasks |-> <<"construct">>]
    ELSE IF constructed[i] = "OutOfMemoryError"
    THEN LET rest == try_dtypes(constructed, i + 1)
         IN [tried |-> <<dtype_attempts[i]>> \o rest.tried, built |-> rest.built,
             last_error |-> IF rest.last_error # "" THEN rest.last_error
                            ELSE constructed[i],
             tasks |-> <<"construct", "unload">> \o rest.tasks]
    ELSE [tried |-> <<dtype_attempts[i]>>, built |-> FALSE,
          last_error |-> constructed[i], tasks |-> <<"construct", "unload">>]

\* A load_engine without the test for the model that is loaded already.
load_engine_always(we, m, constructed) ==
    LET requested_model == normalize_model_uri(we, m)
        cleared == IF we.engine # None THEN unload_engine(we) ELSE we
        before == IF we.engine # None THEN <<"unload">> ELSE <<>>
        made == try_dtypes(constructed, 1)
        failed == IF "unload" \in {made.tasks[i] : i \in DOMAIN made.tasks}
                  THEN unload_engine(cleared) ELSE cleared
    IN IF made.built
       THEN [we |-> [failed EXCEPT !.engine = NewEngine(requested_model),
                                   !.model_uri = requested_model],
             raised |-> FALSE, error |-> "", tried |-> made.tried,
             tasks |-> before \o <<"free_cuda_memory">> \o made.tasks]
       ELSE [we |-> failed, raised |-> TRUE, error |-> made.last_error,
             tried |-> made.tried,
             tasks |-> before \o <<"free_cuda_memory">> \o made.tasks]

\* load_engine(model_uri): the manager it leaves, whether it raised and
\* what, the dtypes it tried, and the tasks it ran on the cuda thread.
\* Every failed attempt is followed by _unload_engine_sync, which also
\* empties the seed slot.
load_engine(we, m, constructed) ==
    LET requested_model == normalize_model_uri(we, m)
        cleared == IF we.engine # None THEN unload_engine(we) ELSE we
        before == IF we.engine # None THEN <<"unload">> ELSE <<>>
        made == try_dtypes(constructed, 1)
        failed == IF "unload" \in {made.tasks[i] : i \in DOMAIN made.tasks}
                  THEN unload_engine(cleared) ELSE cleared
    IN IF we.engine # None /\ requested_model = we.model_uri
       THEN [we |-> we, raised |-> FALSE, error |-> "", tried |-> <<>>,
             tasks |-> <<>>]
       ELSE IF made.built
       THEN [we |-> [failed EXCEPT !.engine = NewEngine(requested_model),
                                   !.model_uri = requested_model],
             raised |-> FALSE, error |-> "", tried |-> made.tried,
             tasks |-> before \o <<"free_cuda_memory">> \o made.tasks]
       ELSE [we |-> failed, raised |-> TRUE, error |-> made.last_error,
             tried |-> made.tried,
             tasks |-> before \o <<"free_cuda_memory">> \o made.tasks]

\* reset_state raises unless an engine is loaded and the seed slot is filled.
can_reset(we) == we.engine # None /\ we.seed_frame # None

\* reset_state: engine.reset(), append_frame(seed_frame), set_prompt(prompt).
reset_state(we) ==
    [we EXCEPT !.engine = [@ EXCEPT !.generated = 0, !.appended = we.seed_frame,
                                    !.prompt = we.current_prompt]]

\* engine.gen_frame(ctrl): one more frame in the engine's history.
gen_frame(we) == [we EXCEPT !.engine = [@ EXCEPT !.generated = @ + 1]]

\* warmup: reset, append the seed, set the prompt, generate one frame.
warmup(we) == [gen_frame(reset_state(we)) EXCEPT !.engine_warmed_up = TRUE]

\* engine.reset() then engine.append_frame(seed_frame) of the handshake.
reset_and_append(we) ==
    [we EXCEPT !.engine = [@ EXCEPT !.generated = 0, !.appended = we.seed_frame]]

\* ------------------------------------------------------- websocket session

\* A connection that is not open: no coroutine, nothing buffered.  age is
\* the time the connection has spent waiting in the handshake, in seconds.
NoSession ==
    [pc |-> "closed", ctx |-> "", frame_count |-> 0, paused |-> FALSE,
     msg |-> None, latest |-> None, req |-> None, ctrl |-> None, age |-> 0]

\* A text frame that is not JSON.  Every other message of the model stands
\* for the text that json.loads turns into it.
Malformed == [type |-> "<not json>"]

\* json.loads(raw) raises json.JSONDecodeError.
json_loads_raises(raw) == raw = Malformed

\* One step of session s's coroutine: the manager, the session and what the
\* step sent; ib is what is left of the client's messages.  A session that
\* goes back to a receive starts the next read with nothing read so far.
Step(s, we, r, sent, ib, origin) ==
    /\ world_engine' = we
    /\ session' = [session EXCEPT ![s] = r]
    /\ out' = [out EXCEPT ![s] = sent]
    /\ inbox' = [inbox EXCEPT ![s] = IF r.pc = "closed" THEN <<>> ELSE ib]
    /\ drained' = [drained EXCEPT ![s] =
            IF r.pc \in {"closed", "handshake", "init", "drain"} THEN <<>> ELSE @]
    /\ seed_origin' = IF we.seed_frame = None THEN None ELSE origin
    /\ UNCHANGED <<fsVars, safe_seeds_cache, clock, executorVars, taskVars>>

NoFrame == UNCHANGED emitted_id

\* An exception that reaches the outer handlers of websocket_endpoint: a
\* best-effort error is sent and the coroutine ends.
Raise(s, we, message) ==
    Step(s, we, NoSession, <<ErrorMsg(message)>>, <<>>, seed_origin) /\ NoFrame

\* Where a handler returns to: the handshake loop runs while the seed slot
\* is empty, the game loop runs until the client is gone.
NextPc(c, we) ==
    IF c \in {"set_initial_seed", "set_model"}
    THEN IF we.seed_frame = None THEN "handshake" ELSE "init"
    ELSE "drain"

\* A lookup that does not read the verdict.
SeedLookup_without_verdict(f, cache, fs) ==
    IF f = "" THEN [ok |-> FALSE, error |-> "Missing filename"]
    ELSE IF f \notin DOMAIN cache THEN [ok |-> FALSE, error |-> "not in safety cache"]
    ELSE IF ~Exists(fs, cache[f].path) THEN [ok |-> FALSE, error |-> "Seed file not found"]
    ELSE [ok |-> TRUE, error |-> ""]

\* The checks before the file is hashed (load_initial_seed and the
\* prompt_with_seed case): filename given, in the cache, safe, file there.
SeedLookup(f, cache, fs) ==
    IF f = "" THEN [ok |-> FALSE, error |-> "Missing filename"]
    ELSE IF f \notin DOMAIN cache THEN [ok |-> FALSE, error |-> "not in safety cache"]
    ELSE IF ~cache[f].is_safe THEN [ok |-> FALSE, error |-> "marked as unsafe"]
    ELSE IF ~Exists(fs, cache[f].path) THEN [ok |-> FALSE, error |-> "Seed file not found"]
    ELSE [ok |-> TRUE, error |-> ""]

\* What a failed seed load sends: handle_model_request adds the status.
SeedFailure(c, message) ==
    IF c \in {"set_model", "live_set_model"}
    THEN <<ErrorMsg(message), Status("waiting_for_seed")>>
    ELSE <<ErrorMsg(message)>>

\* The start of a seed load for filename f in context c, up to the await of
\* compute_file_hash; r is the session, we the manager, sent what the
\* caller has sent already.
BeginSeedLoad(s, r, c, f, we, sent, ib) ==
    LET lk == SeedLookup(f, safe_seeds_cache, files)
    IN IF lk.ok
       THEN Step(s, we,
                 [r EXCEPT !.pc = "seed_hash", !.ctx = c,
                           !.req = [filename |-> f,
                                    cached_hash |-> safe_seeds_cache[f].hash,
                                    file_path |-> safe_seeds_cache[f].path]],
                 sent, ib, seed_origin)
       ELSE Step(s, we,
                 [r EXCEPT !.pc = NextPc(c, we), !.ctx = "", !.req = None, !.msg = None],
                 sent \o SeedFailure(c, lk.error), ib, seed_origin)

\* websocket.accept(): a new Session, the seed slot is cleared, the client
\* is told to send a seed.
Connect(s) ==
    /\ session[s].pc = "closed"
    /\ Step(s, [world_engine EXCEPT !.seed_frame = None],
            [NoSession EXCEPT !.pc = "handshake"],
            <<Status("waiting_for_seed")>>, <<>>, None)
    /\ emitted_id' = [emitted_id EXCEPT ![s] = -1]

\* The client goes away while the server waits in receive_text.
Disconnect(s) ==
    /\ session[s].pc \in {"handshake", "drain"}
    /\ Step(s, world_engine, NoSession, <<>>, <<>>, seed_origin)
    /\ NoFrame

\* ---- handshake loop: while world_engine.seed_frame is None

HandshakeSetModel(s) ==
    /\ session[s].pc = "handshake" /\ inbox[s] # <<>>
    /\ Head(inbox[s]).type = "set_model"
    /\ LET m == Head(inbox[s])
       IN IF m.model = ""
          THEN Step(s, world_engine,
                    [session[s] EXCEPT !.pc = NextPc("set_model", world_engine)],
                    <<ErrorMsg("Missing model id")>>, Tail(inbox[s]), seed_origin)
          ELSE Step(s, world_engine,
                    [session[s] EXCEPT !.pc = "model_load", !.ctx = "set_model",
                                       !.req = [model |-> m.model, filename |-> m.seed,
                                               quiet |-> 0]],
                    <<Status("loading")>>, Tail(inbox[s]), seed_origin)
    /\ NoFrame

HandshakeSetInitialSeed(s) ==
    /\ session[s].pc = "handshake" /\ inbox[s] # <<>>
    /\ Head(inbox[s]).type = "set_initial_seed"
    /\ BeginSeedLoad(s, session[s], "set_initial_seed", Head(inbox[s]).filename,
                     world_engine, <<>>, Tail(inbox[s]))
    /\ NoFrame

\* Any other type is logged; the loop then tests the seed slot again.
HandshakeIgnore(s) ==
    /\ session[s].pc = "handshake" /\ inbox[s] # <<>>
    /\ ~json_loads_raises(Head(inbox[s]))
    /\ Head(inbox[s]).type \notin {"set_model", "set_initial_seed"}
    /\ Step(s, world_engine,
            [session[s] EXCEPT !.pc = NextPc("set_initial_seed", world_engine)],
            <<>>, Tail(inbox[s]), seed_origin)
    /\ NoFrame

\* json.loads raises in the handshake loop, whose try catches the timeout
\* only: the exception ends the coroutine.
HandshakeMalformed(s) ==
    /\ session[s].pc = "handshake" /\ inbox[s] # <<>>
    /\ json_loads_raises(Head(inbox[s]))
    /\ Raise(s, world_engine, "Expecting value")

\* The receive_text of the handshake returns a message that came Period
\* seconds after the wait began, before its timeout.
HandshakeLate(s, m) ==
    /\ session[s].pc = "handshake" /\ inbox[s] = <<>>
    /\ Period < HANDSHAKE_TIMEOUT
    /\ session[s].age + Period <= MaxAge
    /\ session' = [session EXCEPT ![s].age = @ + Period]
    /\ inbox' = [inbox EXCEPT ![s] = <<m>>]
    /\ UNCHANGED <<fsVars, safe_seeds_cache, world_engine, out, clock, historyVars,
                   executorVars, taskVars>>

\* asyncio.TimeoutError after 60 s without a message.
HandshakeTimeout(s) ==
    /\ session[s].pc = "handshake" /\ inbox[s] = <<>>
    /\ Step(s, world_engine, NoSession,
            <<ErrorMsg("Timeout waiting for initial seed")>>, <<>>, seed_origin)
    /\ NoFrame

\* ---- handle_model_request while the load task runs, and after it is done

\* Five seconds go by and the load task is not done: wait_for times out
\* and the loading status is sent again.  quiet counts the periods of five
\* seconds since the session's last loading status.
LoadingTimeout(s) ==
    /\ session[s].pc = "model_load"
    /\ Step(s, world_engine, [session[s] EXCEPT !.req.quiet = 0],
            <<Status("loading")>>, inbox[s], seed_origin)
    /\ NoFrame

ModelLoad(s, constructed) ==
    /\ session[s].pc = "model_load"
    /\ LET r == load_engine(world_engine, session[s].req.model, constructed)
           seed_filename == session[s].req.filename
           effective_seed == IF seed_filename # "" THEN seed_filename
                             ELSE DEFAULT_INITIAL_SEED
       IN IF r.raised
          THEN Raise(s, r.we, "load failed")
          ELSE /\ BeginSeedLoad(s, [session[s] EXCEPT !.frame_count = 0],
                                session[s].ctx, effective_seed,
                                [r.we EXCEPT !.seed_frame = None], <<>>, inbox[s])
               /\ NoFrame

\* ---- the rest of a seed load: hash the file, then read it on the cuda thread

\* compute_file_hash returns.  A file that is gone makes open() raise:
\* prompt_with_seed catches it, load_initial_seed does not.
SeedHash(s) ==
    /\ session[s].pc = "seed_hash"
    /\ LET q == session[s].req
           c == session[s].ctx
       IN IF files[q.file_path] = NoFile
          THEN IF c = "prompt_with_seed"
               THEN Step(s, world_engine,
                         [session[s] EXCEPT !.pc = "drain", !.ctx = "", !.req = None,
                                            !.msg = None],
                         <<ErrorMsg("Failed to set seed")>>, inbox[s], seed_origin)
                    /\ NoFrame
               ELSE Raise(s, world_engine, "No such file")
          ELSE IF compute_file_hash(files[q.file_path]) # q.cached_hash
          THEN Step(s, world_engine,
                    [session[s] EXCEPT !.pc = NextPc(c, world_engine), !.ctx = "",
                                       !.req = None, !.msg = None],
                    SeedFailure(c, "File integrity verification failed"),
                    inbox[s], seed_origin)
               /\ NoFrame
          ELSE Step(s, world_engine, [session[s] EXCEPT !.pc = "seed_load"],
                    <<>>, inbox[s], seed_origin)
               /\ NoFrame

\* The provenance of a tensor put into the seed slot: the file it was read
\* from, the digest of what was read, the cached hash it was verified
\* against, and the session that did so.
Origin(s, f, c) ==
    [filename |-> f, disk_hash |-> compute_file_hash(c),
     checked_hash |-> session[s].req.cached_hash, by |-> s]

\* load_seed_from_file returns: the tensor of what the file holds now, or
\* None when it cannot be opened.  prompt_with_seed resets the engine.
SeedLoad(s) ==
    /\ session[s].pc = "seed_load"
    /\ LET q == session[s].req
           c == session[s].ctx
           content == files[q.file_path]
           loaded == [world_engine EXCEPT !.seed_frame = [content |-> content]]
           back == [session[s] EXCEPT !.pc = NextPc(c, world_engine), !.ctx = "",
                                      !.req = None, !.msg = None]
       IN IF content = NoFile
          THEN Step(s, world_engine, back, SeedFailure(c, "Failed to load seed image"),
                    inbox[s], seed_origin)
          ELSE IF c # "prompt_with_seed"
          THEN Step(s, loaded, [back EXCEPT !.pc = NextPc(c, loaded)], <<>>, inbox[s],
                    Origin(s, q.filename, content))
          ELSE IF can_reset(loaded)
          THEN Step(s, reset_state(loaded), [back EXCEPT !.frame_count = 0],
                    <<Status("reset")>>, inbox[s], Origin(s, q.filename, content))
          ELSE Step(s, loaded, back, <<ErrorMsg("Failed to set seed")>>, inbox[s],
                    Origin(s, q.filename, content))
    /\ NoFrame

\* ---- after the handshake loop: default model, warmup, first frame

\* "If no model was selected by client, load default/current model now.":
\* one loading status, then the await of load_engine.
InitLoadEngine(s) ==
    /\ session[s].pc = "init" /\ world_engine.engine = None
    /\ Step(s, world_engine,
            [session[s] EXCEPT !.pc = "default_load", !.req = [quiet |-> 0]],
            <<Status("loading")>>, inbox[s], seed_origin)
    /\ NoFrame

\* Five seconds go by while load_engine is awaited: nothing is sent.
DefaultLoadWait(s) ==
    /\ session[s].pc = "default_load"
    /\ session[s].req.quiet < MaxQuiet
    /\ Step(s, world_engine, [session[s] EXCEPT !.req.quiet = @ + 1],
            <<>>, inbox[s], seed_origin)
    /\ NoFrame

\* load_engine() returns or raises.
DefaultLoad(s, constructed) ==
    /\ session[s].pc = "default_load"
    /\ LET r == load_engine(world_engine, "", constructed)
       IN IF r.raised
          THEN Raise(s, r.we, "load failed")
          ELSE Step(s, r.we, [session[s] EXCEPT !.pc = "init", !.req = None],
                    <<>>, inbox[s], seed_origin)
               /\ NoFrame

InitSession(s) ==
    /\ session[s].pc = "init" /\ world_engine.engine # None
    /\ IF world_engine.seed_frame = None
       THEN Step(s, world_engine, NoSession, <<>>, <<>>, seed_origin) /\ NoFrame
       ELSE LET warm == IF world_engine.engine_warmed_up THEN world_engine
                        ELSE warmup(world_engine)
            IN /\ Step(s, reset_and_append(warm),
                       [session[s] EXCEPT !.pc = "drain", !.paused = FALSE],
                       (IF world_engine.engine_warmed_up THEN <<>>
                        ELSE <<Status("warmup")>>)
                       \o <<Status("init"), Status("loading"), Frame(0, 0),
                            Status("ready")>>,
                       inbox[s], seed_origin)
               /\ emitted_id' = [emitted_id EXCEPT ![s] = 0]

\* ---- get_latest_control: one receive_text per step

\* A control message is read: it replaces the one kept so far.
DrainControl(s) ==
    /\ session[s].pc = "drain" /\ inbox[s] # <<>>
    /\ Head(inbox[s]).type = "control"
    /\ world_engine' = world_engine
    /\ session' = [session EXCEPT ![s].latest = Head(inbox[s])]
    /\ inbox' = [inbox EXCEPT ![s] = Tail(@)]
    /\ drained' = [drained EXCEPT ![s] = Append(@, Head(inbox[s]))]
    /\ out' = [out EXCEPT ![s] = <<>>]
    /\ UNCHANGED <<fsVars, safe_seeds_cache, clock, seed_origin, executorVars, taskVars>>
    /\ NoFrame

\* A drain that returns the newest message and forgets the older ones.
DrainSpecial_newest_only(s) ==
    /\ session[s].pc = "drain" /\ inbox[s] # <<>>
    /\ ~json_loads_raises(Head(inbox[s]))
    /\ Head(inbox[s]).type # "control"
    /\ ~json_loads_raises(inbox[s][Len(inbox[s])])
    /\ world_engine' = world_engine
    /\ session' = [session EXCEPT ![s].pc = "dispatch",
                                  ![s].msg = inbox[s][Len(inbox[s])],
                                  ![s].latest = None]
    /\ inbox' = [inbox EXCEPT ![s] = <<>>]
    /\ drained' = [drained EXCEPT ![s] = Append(@, Head(inbox[s]))]
    /\ out' = [out EXCEPT ![s] = <<>>]
    /\ UNCHANGED <<fsVars, safe_seeds_cache, clock, seed_origin, executorVars, taskVars>>
    /\ NoFrame

\* Any other message is returned at once; the control kept so far is a
\* local of the call and goes with it.
DrainSpecial(s) ==
    /\ session[s].pc = "drain" /\ inbox[s] # <<>>
    /\ ~json_loads_raises(Head(inbox[s]))
    /\ Head(inbox[s]).type # "control"
    /\ world_engine' = world_engine
    /\ session' = [session EXCEPT ![s].pc = "dispatch", ![s].msg = Head(inbox[s]),
                                  ![s].latest = None]
    /\ inbox' = [inbox EXCEPT ![s] = Tail(@)]
    /\ drained' = [drained EXCEPT ![s] = Append(@, Head(inbox[s]))]
    /\ out' = [out EXCEPT ![s] = <<>>]
    /\ UNCHANGED <<fsVars, safe_seeds_cache, clock, seed_origin, executorVars, taskVars>>
    /\ NoFrame

\* json.loads raises inside get_latest_control: the game loop catches
\* WebSocketDisconnect only, so the exception ends the coroutine.
DrainMalformed(s) ==
    /\ session[s].pc = "drain" /\ inbox[s] # <<>>
    /\ json_loads_raises(Head(inbox[s]))
    /\ Raise(s, world_engine, "Expecting value")

\* Nothing arrives within the millisecond: the call returns what it kept,
\* and the game loop starts over when that is nothing.
DrainTimeout(s) ==
    /\ session[s].pc = "drain" /\ inbox[s] = <<>>
    /\ session[s].latest # None
    /\ world_engine' = world_engine
    /\ session' = [session EXCEPT ![s].pc = "dispatch", ![s].msg = session[s].latest,
                                  ![s].latest = None]
    /\ out' = [out EXCEPT ![s] = <<>>]
    /\ UNCHANGED <<fsVars, safe_seeds_cache, inbox, drained, clock, seed_origin,
                   executorVars, taskVars>>
    /\ NoFrame

\* ---- the game loop's match on the message type

\* What every handler leaves behind when it goes back to the top of the loop.
Loop(r) == [r EXCEPT !.pc = "drain", !.ctx = "", !.msg = None, !.req = None,
                     !.ctrl = None, !.latest = None]

\* str.strip() on the prompts a client sends.
Strip(p) == IF p = " " THEN "" ELSE p

\* An auto-reset that comes one frame late.
at_frame_limit_late(r) == r.frame_count > max_frames

\* The auto-reset test of the control case.
at_frame_limit(r) == r.frame_count >= max_frames

HandleSetModel(s) ==
    /\ session[s].pc = "dispatch" /\ session[s].msg.type = "set_model"
    /\ IF session[s].msg.model = ""
       THEN Step(s, world_engine, Loop(session[s]), <<ErrorMsg("Missing model id")>>,
                 inbox[s], seed_origin)
       ELSE Step(s, world_engine,
                 [session[s] EXCEPT !.pc = "model_load", !.ctx = "live_set_model",
                                    !.req = [model |-> session[s].msg.model,
                                             filename |-> "", quiet |-> 0]],
                 <<Status("loading")>>, inbox[s], seed_origin)
    /\ NoFrame

\* reset_engine: reset_state, counter to zero, status reset.
HandleReset(s) ==
    /\ session[s].pc = "dispatch" /\ session[s].msg.type = "reset"
    /\ IF can_reset(world_engine)
       THEN Step(s, reset_state(world_engine),
                 [Loop(session[s]) EXCEPT !.frame_count = 0],
                 <<Status("reset")>>, inbox[s], seed_origin) /\ NoFrame
       ELSE Raise(s, world_engine, "reset_state failed")

HandlePause(s) ==
    /\ session[s].pc = "dispatch" /\ session[s].msg.type = "pause"
    /\ Step(s, world_engine, [Loop(session[s]) EXCEPT !.paused = TRUE], <<>>,
            inbox[s], seed_origin)
    /\ NoFrame

HandleResume(s) ==
    /\ session[s].pc = "dispatch" /\ session[s].msg.type = "resume"
    /\ Step(s, world_engine, [Loop(session[s]) EXCEPT !.paused = FALSE], <<>>,
            inbox[s], seed_origin)
    /\ NoFrame

\* The prompt is stored first; a reset that raises is logged and dropped.
HandlePrompt(s) ==
    /\ session[s].pc = "dispatch" /\ session[s].msg.type = "prompt"
    /\ LET new_prompt == Strip(session[s].msg.prompt)
           we == [world_engine EXCEPT !.current_prompt =
                      IF new_prompt # "" THEN new_prompt ELSE DEFAULT_PROMPT]
       IN IF can_reset(we)
          THEN Step(s, reset_state(we), [Loop(session[s]) EXCEPT !.frame_count = 0],
                    <<Status("reset")>>, inbox[s], seed_origin)
          ELSE Step(s, we, Loop(session[s]), <<>>, inbox[s], seed_origin)
    /\ NoFrame

HandlePromptWithSeed(s) ==
    /\ session[s].pc = "dispatch" /\ session[s].msg.type = "prompt_with_seed"
    /\ BeginSeedLoad(s, Loop(session[s]), "prompt_with_seed", session[s].msg.filename,
                     world_engine, <<>>, inbox[s])
    /\ NoFrame

\* A type no case matches: the loop goes on.
HandleOther(s) ==
    /\ session[s].pc = "dispatch"
    /\ session[s].msg.type \notin {"set_model", "reset", "pause", "resume", "prompt",
                                   "prompt_with_seed", "control"}
    /\ Step(s, world_engine, Loop(session[s]), <<>>, inbox[s], seed_origin)
    /\ NoFrame

\* The control case up to the await of generate_frame: dropped when paused,
\* reset first at the frame limit, then the call is handed to the engine.
HandleControl(s) ==
    /\ session[s].pc = "dispatch" /\ session[s].msg.type = "control"
    /\ LET m == session[s].msg
           to_gen == [session[s] EXCEPT !.pc = "gen", !.latest = None,
                                        !.ctrl = [input |-> CtrlInput(m),
                                                  client_ts |-> m.ts]]
       IN IF session[s].paused
          THEN Step(s, world_engine, Loop(session[s]), <<>>, inbox[s], seed_origin)
               /\ NoFrame
          ELSE IF at_frame_limit(session[s])
          THEN IF can_reset(world_engine)
               THEN Step(s, reset_state(world_engine),
                         [to_gen EXCEPT !.frame_count = 0],
                         <<Status("reset")>>, inbox[s], seed_origin) /\ NoFrame
               ELSE Raise(s, world_engine, "reset_state failed")
          ELSE IF world_engine.engine = None
          THEN Raise(s, world_engine, "WorldEngine is not loaded")
          ELSE Step(s, world_engine, to_gen, <<>>, inbox[s], seed_origin) /\ NoFrame

\* generate_frame returns: the counter goes up and the frame is sent with
\* the counter as its id and the control's ts.
GenFrameOk(s) ==
    /\ session[s].pc = "gen" /\ world_engine.engine # None
    /\ LET n == session[s].frame_count + 1
       IN /\ Step(s, gen_frame(world_engine),
                  [Loop(session[s]) EXCEPT !.frame_count = n],
                  <<Frame(n, session[s].ctrl.client_ts)>>, inbox[s], seed_origin)
          /\ emitted_id' = [emitted_id EXCEPT ![s] = n]

\* The texts of the exceptions gen_frame raises in the model.  A text is
\* a sequence of pieces, so that str.lower and the "in" test have parts
\* to look at.
GenErrors ==
    {<<"CUDA", "error:", "illegal", "memory", "access">>,
     <<"CUBLAS", "_STATUS_ALLOC_FAILED">>,
     <<"Graph", "capture", "failed">>,
     <<"offset", "increment", "outside", "graph", "capture">>,
     <<"graph", "break", "in", "capture">>,
     <<"index", "out", "of", "range">>}

\* str.lower(), piece by piece.
lower(text) ==
    [i \in DOMAIN text |->
        CASE text[i] = "CUDA" -> "cuda"
          [] text[i] = "CUBLAS" -> "cublas"
          [] text[i] = "_STATUS_ALLOC_FAILED" -> "_status_alloc_failed"
          [] text[i] = "Graph" -> "graph"
          [] OTHER -> text[i]]

\* keyword in text
Contains(text, keyword) ==
    \E i \in 1..(Len(text) - Len(keyword) + 1) :
        SubSeq(text, i, i + Len(keyword) - 1) = keyword

\* The keywords of the accelerator errors.
cuda_keywords ==
    {<<"cuda">>, <<"cublas">>, <<"graph", "capture">>, <<"offset", "increment">>}

\* A test that forgets to lower the text.
is_cuda_error_case_sensitive(error_msg) ==
    \E keyword \in cuda_keywords : Contains(error_msg, keyword)

\* any(keyword in error_msg.lower() for keyword in [...])
is_cuda_error(error_msg) ==
    \E keyword \in cuda_keywords : Contains(lower(error_msg), keyword)

\* The status sent after a recovery.
RecoveredStatus ==
    [type |-> "status", code |-> "reset",
     message |-> "Recovered from CUDA error - engine reset"]

\* generate_frame raises an accelerator error: the session goes on to
\* await recover_from_cuda_error.
GenFrameCudaError(s, error_msg) ==
    /\ session[s].pc = "gen"
    /\ is_cuda_error(error_msg)
    /\ Step(s, world_engine,
            [session[s] EXCEPT !.pc = "recover", !.req = [error |-> error_msg]],
            <<>>, inbox[s], seed_origin)
    /\ NoFrame

\* recover_from_cuda_error returns: it clears the caches and resets the
\* engine; cleared = FALSE is a clear that raises.  The session counter is
\* not touched.
RecoverFromCudaError(s, cleared) ==
    /\ session[s].pc = "recover"
    /\ IF cleared /\ can_reset(world_engine)
       THEN Step(s, reset_state(world_engine), Loop(session[s]),
                 <<RecoveredStatus>>, inbox[s], seed_origin)
       ELSE Step(s, world_engine, NoSession,
                 <<ErrorMsg("CUDA error - recovery failed. Please reconnect.")>>,
                 <<>>, seed_origin)
    /\ NoFrame

\* Any other exception of generate_frame is raised again.
GenFrameOtherError(s, error_msg) ==
    /\ session[s].pc = "gen"
    /\ ~is_cuda_error(error_msg)
    /\ Raise(s, world_engine, error_msg)

\* ------------------------------------------------------------- the clients

ControlMsg(inp, ts) ==
    [type |-> "control", buttons |-> inp.buttons, mouse_dx |-> inp.mouse_dx,
     mouse_dy |-> inp.mouse_dy, ts |-> ts]

\* The messages about models and seeds.
SeedMessages ==
    {[type |-> "set_initial_seed", filename |-> f] : f \in Names \cup {""}}
    \cup {[type |-> "set_model", model |-> m, seed |-> f] :
             m \in Models, f \in {"", "a.png"}}
    \cup {[type |-> "prompt_with_seed", filename |-> f] : f \in Names}

\* The messages of a game: one way through the handshake, then everything
\* the game loop knows, and one type it does not know.
GameMessages ==
    {[type |-> "set_model", model |-> m, seed |-> ""] : m \in Models}
    \cup {[type |-> "prompt_with_seed", filename |-> f] : f \in Names}
    \cup {[type |-> "prompt", prompt |-> p] : p \in Prompts}
    \cup {[type |-> t] : t \in {"reset", "pause", "resume", "ping"}}

\* The client of an open connection sends a message.
ClientSend(s, m) ==
    /\ session[s].pc # "closed"
    /\ Len(inbox[s]) < MaxInbox
    /\ inbox' = [inbox EXCEPT ![s] = Append(@, m)]
    /\ UNCHANGED <<fsVars, safe_seeds_cache, world_engine, session, out, clock,
                   historyVars, executorVars, taskVars>>

\* The client of a running game sends its next input, stamped with its clock.
ClientControl(s, inp) ==
    /\ session[s].pc \in {"drain", "dispatch", "gen"}
    /\ Len(inbox[s]) < MaxInbox
    /\ clock[s] < MaxTs
    /\ clock' = [clock EXCEPT ![s] = @ + 1]
    /\ inbox' = [inbox EXCEPT ![s] = Append(@, ControlMsg(inp, clock[s] + 1))]
    /\ UNCHANGED <<fsVars, safe_seeds_cache, world_engine, session, out,
                   historyVars, executorVars, taskVars>>

\* A client that waits until the server has taken its last message.
ClientAsk(s, m) == inbox[s] = <<>> /\ ClientSend(s, m)

ClientAskControl(s, inp) == inbox[s] = <<>> /\ ClientControl(s, inp)

\* ---------------------------------------------------------- specifications

\* The seed directories a server may find when it starts.
InitialFiles ==
    {fs \in [Paths -> Contents \cup {NoFile}] :
        /\ fs[<<DEFAULT_SEEDS_DIR, "default.png">>] # NoFile
        /\ fs[<<UPLOADS_DIR, "default.png">>] = NoFile}

\* The executors with nothing to do.
IdleExecutors ==
    /\ cuda_queue = <<>>
    /\ cuda_running = {}
    /\ pool_running = {}
    /\ loop_running = {}
    /\ call = [c \in 1..NCallers |-> "idle"]
    /\ ticket = 0
    /\ model_load_lock = 0
    /\ rescan_lock = 0
    /\ coro = [c \in 1..NCallers |-> [pc |-> "idle"]]
    /\ now = 0
    /\ safety_checker = NewSafetyChecker

\* No connection yet.
NoConnections ==
    /\ world_engine = NewWorldEngine
    /\ session = [s \in Sessions |-> NoSession]
    /\ inbox = [s \in Sessions |-> <<>>]
    /\ out = [s \in Sessions |-> <<>>]
    /\ clock = [s \in Sessions |-> 0]
    /\ drained = [s \in Sessions |-> <<>>]
    /\ emitted_id = [s \in Sessions |-> -1]
    /\ seed_origin = None

\* After lifespan's startup: the cache is what validate_and_update_cache
\* makes of the directories (no blob yet: a full scan) and is saved.
InitCache ==
    /\ files \in InitialFiles
    /\ safe_seeds_cache =
           validate_and_update_cache(files, [files |-> <<>>, last_scan |-> None], 0).files
    /\ cache_file = safe_seeds_cache
    /\ last_scan = 0
    /\ NoConnections
    /\ IdleExecutors

\* The HTTP surface of the seed cache, and the environment's hands on the
\* seed directories.
NextCache ==
    \/ \E f \in Names, c \in Contents, ok \in BOOLEAN : upload_seed(f, c, ok)
    \/ \E force_full \in BOOLEAN : rescan_seeds_endpoint(force_full)
    \/ \E f \in Names : delete_seed(f)
    \/ Tick
    \/ \E seeds \in SetCacheRequests : set_cache(seeds)
    \/ \E p \in Paths, c \in Contents : EnvWrite(p, c)
    \/ \E p \in Paths : EnvRemove(p)

SpecCache == InitCache /\ [][NextCache]_vars

\* A game on seed directories nobody touches: a safe default seed and an
\* unsafe upload.
InitFrames ==
    /\ files = [p \in Paths |->
                   IF p = <<DEFAULT_SEEDS_DIR, "default.png">> THEN 1
                   ELSE IF p = <<UPLOADS_DIR, "a.png">> THEN 2 ELSE NoFile]
    /\ safe_seeds_cache =
           validate_and_update_cache(files, [files |-> <<>>, last_scan |-> None], 0).files
    /\ cache_file = safe_seeds_cache
    /\ last_scan = 0
    /\ NoConnections
    /\ IdleExecutors

\* What a session does from the handshake to the end of the connection.
SessionStep(s) ==
    \/ Connect(s)
    \/ Disconnect(s)
    \/ HandshakeSetModel(s)
    \/ HandshakeSetInitialSeed(s)
    \/ HandshakeIgnore(s)
    \/ HandshakeTimeout(s)
    \/ LoadingTimeout(s)
    \/ \E constructed \in Constructions : ModelLoad(s, constructed)
    \/ SeedHash(s)
    \/ SeedLoad(s)
    \/ InitLoadEngine(s)
    \/ DefaultLoadWait(s)
    \/ \E constructed \in Constructions : DefaultLoad(s, constructed)
    \/ InitSession(s)
    \/ DrainSpecial(s)
    \/ HandleSetModel(s)
    \/ HandlePromptWithSeed(s)

\* The game loop's part for everything but models and seeds.
GameStep(s) ==
    \/ DrainControl(s)
    \/ DrainTimeout(s)
    \/ HandleReset(s)
    \/ HandlePause(s)
    \/ HandleResume(s)
    \/ HandlePrompt(s)
    \/ HandleOther(s)
    \/ HandleControl(s)
    \/ GenFrameOk(s)
    \/ \E error_msg \in GenErrors : GenFrameCudaError(s, error_msg)
    \/ \E cleared \in BOOLEAN : RecoverFromCudaError(s, cleared)
    \/ \E error_msg \in GenErrors : GenFrameOtherError(s, error_msg)

\* A game with every message of the game loop, the client sending one
\* message at a time.
NextFrames ==
    \E s \in Solo :
        \/ SessionStep(s)
        \/ GameStep(s)
        \/ \E m \in GameMessages \cup {[type |-> "set_initial_seed", filename |-> "default.png"]} :
               ClientAsk(s, m)
        \/ \E inp \in Inputs : ClientAskControl(s, inp)

SpecFrames == InitFrames /\ [][NextFrames]_vars

\* The messages of a client that only plays.
PlayMessages ==
    {[type |-> "set_initial_seed", filename |-> "default.png"]}
    \cup {[type |-> t] : t \in {"pause", "resume"}}

\* A game whose client sends its inputs without waiting: the server finds
\* several messages when it drains.
NextDrain ==
    \E s \in Solo :
        \/ Connect(s)
        \/ Disconnect(s)
        \/ HandshakeSetInitialSeed(s)
        \/ HandshakeIgnore(s)
        \/ HandshakeTimeout(s)
        \/ SeedHash(s)
        \/ SeedLoad(s)
        \/ InitLoadEngine(s)
        \/ DefaultLoadWait(s)
        \/ \E constructed \in Constructions : DefaultLoad(s, constructed)
        \/ InitSession(s)
        \/ DrainControl(s)
        \/ DrainSpecial(s)
        \/ DrainTimeout(s)
        \/ HandlePause(s)
        \/ HandleResume(s)
        \/ HandleOther(s)
        \/ HandleControl(s)
        \/ GenFrameOk(s)
        \/ \E error_msg \in GenErrors : GenFrameCudaError(s, error_msg)
        \/ \E cleared \in BOOLEAN : RecoverFromCudaError(s, cleared)
        \/ \E error_msg \in GenErrors : GenFrameOtherError(s, error_msg)
        \/ \E m \in PlayMessages : ClientSend(s, m)
        \/ \E inp \in Inputs : ClientControl(s, inp)

SpecDrain == InitFrames /\ [][NextDrain]_vars

\* Sessions that choose models and seeds while rescans and the environment
\* change the seed directories and the cache.
NextSeed ==
    \/ \E s \in Solo :
        \/ SessionStep(s)
        \/ \E m \in SeedMessages : ClientAsk(s, m)
    \/ \E force_full \in BOOLEAN : rescan_seeds_endpoint(force_full)
    \/ \E p \in Paths, c \in Contents : EnvWrite(p, c)
    \/ \E p \in Paths : EnvRemove(p)

SpecSeed == InitFrames /\ [][NextSeed]_vars

\* What a client sends besides its inputs: every message the game loop
\* has a case for, one it has none for, and a text that is not JSON.
LoopMessages ==
    {[type |-> "set_initial_seed", filename |-> "default.png"], Malformed}
    \cup {[type |-> "set_model", model |-> m, seed |-> ""] : m \in Models}
    \cup {[type |-> "prompt_with_seed", filename |-> f] : f \in Names}
    \cup {[type |-> "prompt", prompt |-> "castle"]}
    \cup {[type |-> t] : t \in {"reset", "pause", "resume", "ping"}}

\* A session whose client sends messages without waiting and no input.
NextMessages ==
    \E s \in Solo :
        \/ SessionStep(s)
        \/ HandshakeMalformed(s)
        \/ DrainMalformed(s)
        \/ HandleReset(s)
        \/ HandlePause(s)
        \/ HandleResume(s)
        \/ HandlePrompt(s)
        \/ HandleOther(s)
        \/ \E m \in LoopMessages : ClientSend(s, m)

SpecMessages == InitFrames /\ [][NextMessages]_vars

\* What the clients of two connections send: the handshake's messages and,
\* in the game loop, a reset.
SharedMessages ==
    {[type |-> "set_initial_seed", filename |-> "default.png"], [type |-> "ping"],
     [type |-> "reset"]}

\* Two connections side by side on the one engine manager of the process.
NextShared ==
    \E s \in Sessions :
        \/ Connect(s)
        \/ Disconnect(s)
        \/ HandshakeSetInitialSeed(s)
        \/ HandshakeIgnore(s)
        \/ HandshakeTimeout(s)
        \/ SeedHash(s)
        \/ SeedLoad(s)
        \/ InitLoadEngine(s)
        \/ DefaultLoadWait(s)
        \/ \E constructed \in Constructions : DefaultLoad(s, constructed)
        \/ InitSession(s)
        \/ DrainSpecial(s)
        \/ HandleOther(s)
        \/ HandleReset(s)
        \/ \E m \in SharedMessages : ClientAsk(s, m)

SpecShared == InitFrames /\ [][NextShared]_vars

\* What a client sends while the server waits for its seed: seeds that
\* are refused, a model, and a type the handshake ignores.
WaitingMessages ==
    {[type |-> "set_initial_seed", filename |-> f] : f \in {"a.png", ""}}
    \cup {[type |-> "set_model", model |-> "other/model", seed |-> "a.png"],
          [type |-> "ping"], [type |-> "set_initial_seed", filename |-> "default.png"]}

\* The handshake of one connection with the time its client lets go by.
NextHandshake ==
    \E s \in Solo :
        \/ Connect(s)
        \/ Disconnect(s)
        \/ HandshakeSetModel(s)
        \/ HandshakeSetInitialSeed(s)
        \/ HandshakeIgnore(s)
        \/ HandshakeTimeout(s)
        \/ \E m \in WaitingMessages : HandshakeLate(s, m)
        \/ LoadingTimeout(s)
        \/ \E constructed \in Constructions : ModelLoad(s, constructed)
        \/ SeedHash(s)
        \/ SeedLoad(s)
        \/ \E m \in WaitingMessages : ClientAsk(s, m)

SpecHandshake == InitFrames /\ [][NextHandshake]_vars

\* ----------------------------------------------------------- the executors

\* Calls a coroutine may hand over before the model stops counting.
MaxCalls == 4

\* The engine calls of WorldEngineManager, each through _run_on_cuda_thread:
\* load_engine (unload, construct), generate_frame, reset_state (reset,
\* append_frame, set_prompt) and warmup (all four in one task).
engine_manager_calls ==
    {"unload", "construct", "gen_frame", "reset", "append_frame", "set_prompt", "warmup"}

\* The handshake's own engine.reset and engine.append_frame, through
\* loop.run_in_executor(world_engine.cuda_executor, ...).
handshake_calls == {"init_reset", "init_append_frame"}

\* The classifier calls made through asyncio.to_thread: rescan_seeds,
\* validate_and_update_cache, lifespan's warm-up check, upload_seed.
to_thread_calls ==
    {"rescan_check_batch", "validate_check_batch", "lifespan_check_image",
     "upload_check_image"}

\* The classifier calls of POST /safety/check_image and /safety/check_batch:
\* plain calls inside the async handlers.
endpoint_calls == {"endpoint_check_image", "endpoint_check_batch"}

EngineCalls == engine_manager_calls \cup handshake_calls
SafetyCalls == to_thread_calls \cup endpoint_calls

\* Where the code sends each call.
executor_of(site) ==
    IF site \in EngineCalls THEN "cuda"
    ELSE IF site \in to_thread_calls THEN "pool"
    ELSE "loop"

\* A pool that starts a task while its one worker is still busy.
worker_free_off_by_one == Cardinality(cuda_running) <= cuda_max_workers

\* ThreadPoolExecutor starts a queued task when a worker thread is free.
worker_free == Cardinality(cuda_running) < cuda_max_workers

\* A coroutine hands over a call and awaits it.  No coroutine runs while
\* the event loop is inside a plain call.
Submit(c, site) ==
    /\ call[c] = "idle" /\ loop_running = {} /\ ticket < MaxCalls
    /\ LET task == [caller |-> c, site |-> site, ticket |-> ticket + 1]
       IN CASE executor_of(site) = "cuda" ->
                 /\ cuda_queue' = Append(cuda_queue, task)
                 /\ UNCHANGED <<pool_running, loop_running>>
            [] executor_of(site) = "pool" ->
                 /\ Cardinality(pool_running) < MaxPool
                 /\ pool_running' = pool_running \cup {task}
                 /\ UNCHANGED <<cuda_queue, loop_running>>
            [] OTHER ->
                 /\ loop_running' = {task}
                 /\ UNCHANGED <<cuda_queue, pool_running>>
    /\ call' = [call EXCEPT ![c] = site]
    /\ ticket' = ticket + 1
    /\ UNCHANGED <<fsVars, safe_seeds_cache, wsVars, cuda_running, taskVars>>

\* The cuda thread takes the oldest task of its queue.
CudaStart ==
    /\ cuda_queue # <<>> /\ worker_free
    /\ cuda_running' = cuda_running \cup {Head(cuda_queue)}
    /\ cuda_queue' = Tail(cuda_queue)
    /\ UNCHANGED <<fsVars, safe_seeds_cache, wsVars, pool_running, loop_running,
                   call, ticket, taskVars>>

\* A call returns and its coroutine goes on.
Finish(task) ==
    /\ task \in cuda_running \cup pool_running \cup loop_running
    /\ cuda_running' = cuda_running \ {task}
    /\ pool_running' = pool_running \ {task}
    /\ loop_running' = loop_running \ {task}
    /\ call' = [call EXCEPT ![task.caller] = "idle"]
    /\ UNCHANGED <<fsVars, safe_seeds_cache, wsVars, cuda_queue, ticket, taskVars>>

NextWorker ==
    \/ \E c \in 1..NCallers, site \in EngineCalls \cup SafetyCalls : Submit(c, site)
    \/ CudaStart
    \/ \E task \in cuda_running \cup pool_running \cup loop_running : Finish(task)

SpecWorker == InitFrames /\ [][NextWorker]_vars

\* ------------------------------------------- load_engine, await by await

\* The coroutines that call world_engine.load_engine().
Callers == 1..NCallers

\* load_engine(model_uri) is called: the coroutine comes to "async with
\* self._model_load_lock" and waits there while the lock is held.
LoadEngineCall(c, m) ==
    /\ coro[c].pc = "idle"
    /\ coro' = [coro EXCEPT ![c] = [pc |-> "lock", model_uri |-> m]]
    /\ UNCHANGED <<fsVars, safe_seeds_cache, wsVars, executorVars,
                   model_load_lock, rescan_lock, now, safety_checker>>

\* A coroutine that goes past the lock without looking at it.
LoadEngineAcquire_unguarded(c) ==
    /\ coro[c].pc = "lock"
    /\ LET requested_model == normalize_model_uri(world_engine, coro[c].model_uri)
       IN IF world_engine.engine # None /\ requested_model = world_engine.model_uri
          THEN /\ coro' = [coro EXCEPT ![c] = [pc |-> "idle", result |-> "already"]]
               /\ UNCHANGED model_load_lock
          ELSE /\ model_load_lock' = c
               /\ coro' = [coro EXCEPT ![c] =
                      [pc |-> IF world_engine.engine # None THEN "unload" ELSE "free",
                       requested_model |-> requested_model, dtype |-> 1,
                       last_error |-> ""]]
    /\ UNCHANGED <<fsVars, safe_seeds_cache, wsVars, executorVars, rescan_lock, now, safety_checker>>

\* The lock is free and the coroutine takes it: the model is normalized and
\* compared with the loaded one, and the coroutine runs to its first await
\* (the unload or the cleanup on the cuda thread) or returns.
LoadEngineAcquire(c) ==
    /\ coro[c].pc = "lock"
    /\ model_load_lock = 0
    /\ LET requested_model == normalize_model_uri(world_engine, coro[c].model_uri)
       IN IF world_engine.engine # None /\ requested_model = world_engine.model_uri
          THEN /\ coro' = [coro EXCEPT ![c] = [pc |-> "idle", result |-> "already"]]
               /\ UNCHANGED model_load_lock
          ELSE /\ model_load_lock' = c
               /\ coro' = [coro EXCEPT ![c] =
                      [pc |-> IF world_engine.engine # None THEN "unload" ELSE "free",
                       requested_model |-> requested_model, dtype |-> 1,
                       last_error |-> ""]]
    /\ UNCHANGED <<fsVars, safe_seeds_cache, wsVars, executorVars, rescan_lock, now, safety_checker>>

\* The task awaited on the cuda thread is done and the coroutine runs to
\* its next await, or leaves the "async with" by returning or raising.
\* outcome is what WorldEngine(...) did when the task was a construction.
LoadEngineAwait(c, outcome) ==
    /\ coro[c].pc \in {"unload", "free", "construct", "cleanup"}
    /\ LET t == coro[c]
           leave(result) ==
               /\ coro' = [coro EXCEPT ![c] = [pc |-> "idle", result |-> result]]
               /\ model_load_lock' = IF model_load_lock = c THEN 0 ELSE model_load_lock
           go(pc) ==
               /\ coro' = [coro EXCEPT ![c].pc = pc]
               /\ UNCHANGED model_load_lock
       IN CASE t.pc = "unload" ->
                 /\ world_engine' = unload_engine(world_engine)
                 /\ go("free")
            [] t.pc = "free" ->
                 /\ world_engine' = world_engine
                 /\ go("construct")
            [] t.pc = "construct" /\ outcome = "ok" ->
                 /\ world_engine' =
                        [world_engine EXCEPT !.engine = NewEngine(t.requested_model),
                                             !.model_uri = t.requested_model]
                 /\ leave("loaded")
            [] t.pc = "construct" /\ outcome # "ok" ->
                 /\ world_engine' = world_engine
                 /\ coro' = [coro EXCEPT ![c].pc = "cleanup", ![c].last_error = outcome]
                 /\ UNCHANGED model_load_lock
            [] t.pc = "cleanup" ->
                 /\ world_engine' = unload_engine(world_engine)
                 /\ IF t.last_error = "OutOfMemoryError" /\ t.dtype < Len(dtype_attempts)
                    THEN /\ coro' = [coro EXCEPT ![c].pc = "construct",
                                                 ![c].dtype = t.dtype + 1]
                         /\ UNCHANGED model_load_lock
                    ELSE leave("raised")
    /\ UNCHANGED <<fsVars, safe_seeds_cache, session, clientVars, historyVars,
                   executorVars, rescan_lock, now, safety_checker>>

\* Coroutines that ask for models, each at its own pace.
NextLoad ==
    \E c \in Callers :
        \/ \E m \in Models \cup {""} : LoadEngineCall(c, m)
        \/ LoadEngineAcquire(c)
        \/ \E outcome \in AttemptOutcomes : LoadEngineAwait(c, outcome)

SpecLoad == InitFrames /\ [][NextLoad]_vars

\* --------------------------------- the seed endpoints, await by await

\* A scan's end that keeps rescan_lock.
scan_returns_locked(c, cache, save) ==
    /\ cache_file' = IF save THEN cache.files ELSE cache_file
    /\ last_scan' = IF save THEN cache.last_scan ELSE last_scan
    /\ safe_seeds_cache' = cache.files
    /\ UNCHANGED rescan_lock
    /\ coro' = [coro EXCEPT ![c] =
           [pc |-> "idle", op |-> "rescan", status |-> 200,
            total_seeds |-> Cardinality(DOMAIN cache.files)]]
    /\ UNCHANGED files

\* rescan_seeds_endpoint's end: the cache that the scan returns becomes
\* safe_seeds_cache, rescan_lock is released and the response goes out.
\* save tells whether the scan called save_seeds_cache(cache).
scan_returns(c, cache, save) ==
    /\ cache_file' = IF save THEN cache.files ELSE cache_file
    /\ last_scan' = IF save THEN cache.last_scan ELSE last_scan
    /\ safe_seeds_cache' = cache.files
    /\ rescan_lock' = 0
    /\ coro' = [coro EXCEPT ![c] =
           [pc |-> "idle", op |-> "rescan", status |-> 200,
            total_seeds |-> Cardinality(DOMAIN cache.files)]]
    /\ UNCHANGED files

\* rescan_seeds() up to its first await: a new cache with last_scan, the
\* glob of both directories, and either nothing to do (saved at once) or
\* the hashing and the classification of what was found.
rescan_from(c) ==
    LET m == current_file_map(files)
        cache == [files |-> <<>>, last_scan |-> now]
    IN IF DOMAIN m = {}
       THEN scan_returns(c, cache, TRUE)
       ELSE /\ rescan_lock' = c
            /\ coro' = [coro EXCEPT ![c] =
                   [pc |-> "scan", cache |-> cache, todo |-> m, changed |-> FALSE]]
            /\ UNCHANGED <<fsVars, safe_seeds_cache>>

\* validate_and_update_cache() after its loop over the cached entries:
\* the missing ones are deleted, a mismatch starts rescan_seeds(), and
\* otherwise the files without an entry are hashed and classified.  m is
\* current_file_map as globbed when the validation started.
validate_continue(c, cache, m, missing_files, mismatch) ==
    LET kept == [f \in DOMAIN cache.files \ missing_files |-> cache.files[f]]
        new_filenames == DOMAIN m \ DOMAIN kept
    IN IF mismatch THEN rescan_from(c)
       ELSE IF new_filenames = {}
       THEN scan_returns(c, [files |-> kept,
                             last_scan |-> IF missing_files # {} THEN now
                                           ELSE cache.last_scan],
                         missing_files # {})
       ELSE /\ rescan_lock' = c
            /\ coro' = [coro EXCEPT ![c] =
                   [pc |-> "scan",
                    cache |-> [files |-> kept, last_scan |-> cache.last_scan],
                    todo |-> [f \in new_filenames |-> m[f]], changed |-> TRUE]]
            /\ UNCHANGED <<fsVars, safe_seeds_cache>>

\* A rescan that does not look at rescan_lock.
RescanRequest_unlocked(c, force_full) ==
    /\ coro[c].pc = "idle"
    /\ LET cache == load_seeds_cache
           cached == cache.files
           missing_files == {f \in DOMAIN cached : ~Exists(files, cached[f].path)}
           to_hash == {f \in DOMAIN cached \ missing_files : cached[f].hash # 0}
       IN IF force_full \/ DOMAIN cached = {}
          THEN rescan_from(c)
          ELSE IF to_hash = {}
          THEN validate_continue(c, cache, current_file_map(files), missing_files,
                                 DOMAIN cached # missing_files)
          ELSE /\ rescan_lock' = c
               /\ coro' = [coro EXCEPT ![c] =
                      [pc |-> "verify", cache |-> cache,
                       todo |-> current_file_map(files), missing |-> missing_files]]
               /\ UNCHANGED <<fsVars, safe_seeds_cache>>
    /\ UNCHANGED <<wsVars, executorVars, model_load_lock, now, safety_checker>>

\* POST /seeds/rescan {force_full_rescan} up to its first await, with
\* rescan_lock free: the lock is taken and rescan_seeds() or
\* validate_and_update_cache() starts (blob loaded, directories globbed,
\* existence of the cached paths tested).
RescanRequest(c, force_full) ==
    /\ coro[c].pc = "idle"
    /\ rescan_lock = 0
    /\ LET cache == load_seeds_cache
           cached == cache.files
           missing_files == {f \in DOMAIN cached : ~Exists(files, cached[f].path)}
           to_hash == {f \in DOMAIN cached \ missing_files : cached[f].hash # 0}
       IN IF force_full \/ DOMAIN cached = {}
          THEN rescan_from(c)
          ELSE IF to_hash = {}
          THEN validate_continue(c, cache, current_file_map(files), missing_files,
                                 DOMAIN cached # missing_files)
          ELSE /\ rescan_lock' = c
               /\ coro' = [coro EXCEPT ![c] =
                      [pc |-> "verify", cache |-> cache,
                       todo |-> current_file_map(files), missing |-> missing_files]]
               /\ UNCHANGED <<fsVars, safe_seeds_cache>>
    /\ UNCHANGED <<wsVars, executorVars, model_load_lock, now, safety_checker>>

\* The hashes (and verdicts) awaited by the scan are there.  In "verify"
\* they are the hashes of the cached entries' files: a file that is gone
\* by now makes compute_file_hash raise, and the request fails.  In "scan"
\* they are those of the files to insert: the records are built, the cache
\* is saved and returned.
RescanResume(c) ==
    /\ coro[c].pc \in {"verify", "scan"}
    /\ LET t == coro[c]
           cached == t.cache.files
       IN IF t.pc = "verify"
          THEN LET hashed == {f \in DOMAIN cached \ t.missing : cached[f].hash # 0}
               IN IF \E f \in hashed : ~Exists(files, cached[f].path)
                  THEN /\ rescan_lock' = 0
                       /\ coro' = [coro EXCEPT ![c] =
                              [pc |-> "idle", op |-> "rescan", status |-> 500]]
                       /\ UNCHANGED <<fsVars, safe_seeds_cache>>
                  ELSE validate_continue(c, t.cache, t.todo, t.missing,
                           \E f \in DOMAIN cached \ t.missing :
                              \/ cached[f].hash = 0
                              \/ compute_file_hash(files[cached[f].path])
                                    # cached[f].hash)
          ELSE scan_returns(c,
                   [files |-> [f \in DOMAIN t.todo |->
                                  SeedRecord(files[t.todo[f]], t.todo[f], now)]
                              @@ cached,
                    last_scan |-> IF t.changed THEN now ELSE t.cache.last_scan],
                   TRUE)
    /\ UNCHANGED <<wsVars, executorVars, model_load_lock, now, safety_checker>>

\* POST /seeds/upload {filename, data} up to the await of write_bytes,
\* which puts the file into uploads/.
UploadRequest(c, f, content) ==
    /\ coro[c].pc = "idle"
    /\ files' = [files EXCEPT ![<<UPLOADS_DIR, f>>] = content]
    /\ coro' = [coro EXCEPT ![c] = [pc |-> "uploaded", filename |-> f]]
    /\ UNCHANGED <<cache_file, last_scan, safe_seeds_cache, wsVars, executorVars,
                   model_load_lock, rescan_lock, now, safety_checker>>

\* The upload's hash and verdict are there.  The record is put into
\* safe_seeds_cache and the blob is loaded, given the whole mapping and
\* saved.  compute_file_hash raises when the file is gone; ok = FALSE is a
\* classifier that raises: the file is removed again.
UploadResume(c, ok) ==
    /\ coro[c].pc = "uploaded"
    /\ LET f == coro[c].filename
           file_path == <<UPLOADS_DIR, f>>
           record == SeedRecord(files[file_path], file_path, now)
           failed == [pc |-> "idle", op |-> "upload", status |-> 500, filename |-> f]
       IN IF ~Exists(files, file_path)
          THEN /\ coro' = [coro EXCEPT ![c] = failed]
               /\ UNCHANGED <<fsVars, safe_seeds_cache>>
          ELSE IF ~ok
          THEN /\ files' = [files EXCEPT ![file_path] = NoFile]
               /\ coro' = [coro EXCEPT ![c] = failed]
               /\ UNCHANGED <<cache_file, last_scan, safe_seeds_cache>>
          ELSE /\ safe_seeds_cache' = (f :> record) @@ safe_seeds_cache
               /\ cache_file' = safe_seeds_cache'
               /\ last_scan' = load_seeds_cache.last_scan
               /\ coro' = [coro EXCEPT ![c] =
                      [pc |-> "idle", op |-> "upload", status |-> 200,
                       filename |-> f, hash |-> record.hash,
                       is_safe |-> record.is_safe]]
               /\ UNCHANGED files
    /\ UNCHANGED <<wsVars, executorVars, model_load_lock, rescan_lock, now, safety_checker>>

\* A delete that does not look at the record's directory.
DeleteRequest_anywhere(c, f) ==
    /\ coro[c].pc = "idle"
    /\ LET answer(status) == [pc |-> "idle", op |-> "delete", status |-> status,
                              filename |-> f]
       IN IF f \notin DOMAIN safe_seeds_cache
          THEN /\ coro' = [coro EXCEPT ![c] = answer(404)]
               /\ UNCHANGED <<fsVars, safe_seeds_cache>>
          ELSE IF Exists(files, safe_seeds_cache[f].path)
          THEN /\ coro' = [coro EXCEPT ![c] =
                      [pc |-> "unlink", filename |-> f,
                       file_path |-> safe_seeds_cache[f].path]]
               /\ UNCHANGED <<fsVars, safe_seeds_cache>>
          ELSE /\ safe_seeds_cache' =
                      [g \in DOMAIN safe_seeds_cache \ {f} |-> safe_seeds_cache[g]]
               /\ cache_file' = safe_seeds_cache'
               /\ last_scan' = load_seeds_cache.last_scan
               /\ coro' = [coro EXCEPT ![c] = answer(200)]
               /\ UNCHANGED files
    /\ UNCHANGED <<wsVars, executorVars, model_load_lock, rescan_lock, now, safety_checker>>

\* DELETE /seeds/{filename} up to the await of unlink: 404 for a filename
\* without a record, 403 for a record whose path is not under uploads/.
\* When the file is not there nothing is awaited: the record is deleted
\* and the blob saved at once.
DeleteRequest(c, f) ==
    /\ coro[c].pc = "idle"
    /\ LET answer(status) == [pc |-> "idle", op |-> "delete", status |-> status,
                              filename |-> f]
       IN IF f \notin DOMAIN safe_seeds_cache
          THEN /\ coro' = [coro EXCEPT ![c] = answer(404)]
               /\ UNCHANGED <<fsVars, safe_seeds_cache>>
          ELSE IF safe_seeds_cache[f].path[1] # UPLOADS_DIR
          THEN /\ coro' = [coro EXCEPT ![c] = answer(403)]
               /\ UNCHANGED <<fsVars, safe_seeds_cache>>
          ELSE IF Exists(files, safe_seeds_cache[f].path)
          THEN /\ coro' = [coro EXCEPT ![c] =
                      [pc |-> "unlink", filename |-> f,
                       file_path |-> safe_seeds_cache[f].path]]
               /\ UNCHANGED <<fsVars, safe_seeds_cache>>
          ELSE /\ safe_seeds_cache' =
                      [g \in DOMAIN safe_seeds_cache \ {f} |-> safe_seeds_cache[g]]
               /\ cache_file' = safe_seeds_cache'
               /\ last_scan' = load_seeds_cache.last_scan
               /\ coro' = [coro EXCEPT ![c] = answer(200)]
               /\ UNCHANGED files
    /\ UNCHANGED <<wsVars, executorVars, model_load_lock, rescan_lock, now, safety_checker>>

\* unlink is done.  "del safe_seeds_cache[filename]" raises KeyError when
\* the mapping has lost the record meanwhile: 500, and nothing is saved.
DeleteResume(c) ==
    /\ coro[c].pc = "unlink"
    /\ LET f == coro[c].filename
           answer(status) == [pc |-> "idle", op |-> "delete", status |-> status,
                              filename |-> f]
       IN /\ files' = [files EXCEPT ![coro[c].file_path] = NoFile]
          /\ IF f \in DOMAIN safe_seeds_cache
             THEN /\ safe_seeds_cache' =
                         [g \in DOMAIN safe_seeds_cache \ {f} |-> safe_seeds_cache[g]]
                  /\ cache_file' = safe_seeds_cache'
                  /\ last_scan' = load_seeds_cache.last_scan
                  /\ coro' = [coro EXCEPT ![c] = answer(200)]
             ELSE /\ coro' = [coro EXCEPT ![c] = answer(500)]
                  /\ UNCHANGED <<cache_file, last_scan, safe_seeds_cache>>
    /\ UNCHANGED <<wsVars, executorVars, model_load_lock, rescan_lock, now, safety_checker>>

\* GET /seeds/list: "async with rescan_lock: pass", then the answer from
\* safe_seeds_cache as it is.
list_seeds(c) ==
    /\ coro[c].pc = "idle"
    /\ rescan_lock = 0
    /\ coro' = [coro EXCEPT ![c] =
           [pc |-> "idle", op |-> "list", status |-> 200,
            seeds |-> safe_seeds_cache]]
    /\ UNCHANGED <<fsVars, safe_seeds_cache, wsVars, executorVars,
                   model_load_lock, rescan_lock, now, safety_checker>>

\* The process stops in the save_seeds_cache that ends a request in
\* flight: before open(CACHE_FILE, "wb"), which leaves the blob as it was,
\* or after it has emptied the blob and before pickle.dump is through.
\* (A stop after the dump is a stop after the request.)
StopInSave(c, opened) ==
    /\ coro[c].pc \in {"uploaded", "unlink", "scan"}
    /\ cache_file' = IF opened THEN (Truncated :> None) ELSE cache_file
    /\ safe_seeds_cache' = <<>>
    /\ coro' = [d \in Callers |-> [pc |-> "stopped"]]
    /\ rescan_lock' = 0
    /\ UNCHANGED <<files, last_scan, wsVars, executorVars, model_load_lock, now, safety_checker>>

\* The process is started again: lifespan validates the cache under
\* rescan_lock before any request is served.
lifespan ==
    /\ \A c \in Callers : coro[c].pc = "stopped"
    /\ LET cache == validate_and_update_cache(files, load_seeds_cache, now)
       IN /\ cache_file' = IF cache.saved THEN cache.files ELSE cache_file
          /\ last_scan' = cache.last_scan
          /\ safe_seeds_cache' = cache.files
    /\ coro' = [c \in Callers |-> [pc |-> "idle"]]
    /\ UNCHANGED <<files, wsVars, executorVars, model_load_lock, rescan_lock, now, safety_checker>>

\* Requests to the seed endpoints, each at its own pace, on directories
\* that others may change.
NextScan ==
    \/ \E c \in Callers :
          \/ \E force_full \in BOOLEAN : RescanRequest(c, force_full)
          \/ RescanResume(c)
          \/ \E f \in Names, content \in Contents : UploadRequest(c, f, content)
          \/ \E ok \in BOOLEAN : UploadResume(c, ok)
          \/ \E f \in Names : DeleteRequest(c, f)
          \/ DeleteResume(c)
          \/ list_seeds(c)
          \/ \E opened \in BOOLEAN : StopInSave(c, opened)
    \/ lifespan
    \/ \E p \in Paths : EnvRemove(p)

SpecScan == InitFrames /\ [][NextScan]_vars

\* Coroutines that load models and coroutines that scan the seeds, side
\* by side.
NextGuards ==
    \E c \in Callers :
        \/ \E m \in Models \cup {""} : LoadEngineCall(c, m)
        \/ LoadEngineAcquire(c)
        \/ \E outcome \in AttemptOutcomes : LoadEngineAwait(c, outcome)
        \/ \E force_full \in BOOLEAN : RescanRequest(c, force_full)
        \/ RescanResume(c)

SpecGuards == InitFrames /\ [][NextGuards]_vars

\* ------------------------------------ the SafetyChecker, thread by thread

\* What a thread asks of the checker: check_image(path) runs on the cpu,
\* check_batch(paths, batch_size) on the device torch finds, which is
\* cuda on the machines the engine (DEVICE = "cuda") runs on.
CheckRequests ==
    [op : {"check_image"}, image_paths : [1..1 -> Paths], batch_size : {1},
     device : {"cpu"}]
    \cup [op : {"check_batch"},
          image_paths : UNION {[1..n -> Paths] : n \in 0..MaxPaths},
          batch_size : 1..MaxBatch, device : {"cuda"}]

\* Thread c enters check_image or check_batch: a batch of no paths returns
\* [] at once, every other request waits for _lock and takes it.
CheckAcquire(c, req) ==
    /\ coro[c].pc = "idle"
    /\ req \in CheckRequests
    /\ IF req.op = "check_batch" /\ req.image_paths = <<>>
       THEN /\ coro' = [coro EXCEPT ![c] =
                           [pc |-> "idle", op |-> req.op, req |-> req,
                            raised |-> FALSE, results |-> <<>>]]
            /\ UNCHANGED safety_checker
       ELSE /\ safety_checker.lock = 0
            /\ safety_checker' = [safety_checker EXCEPT !.lock = c]
            /\ coro' = [coro EXCEPT ![c] = [pc |-> "load_model", req |-> req]]
    /\ UNCHANGED <<fsVars, safe_seeds_cache, wsVars, executorVars,
                   model_load_lock, rescan_lock, now>>

\* _load_model(device) in thread c, before the try block.  outcome names
\* where it stops: from_pretrained raises (nothing is assigned),
\* create_transform raises (the model is assigned, the processor and the
\* device are not), or it goes through.  An exception leaves the "with
\* self._lock" block and reaches the caller.
CheckLoadModel(c, outcome) ==
    /\ coro[c].pc = "load_model"
    /\ safety_checker.lock = c
    /\ LET req == coro[c].req
           device == [device |-> req.device]
           reload == safety_checker.model = None
                     \/ safety_checker.current_device # device
           unloaded == IF safety_checker.model # None
                       THEN [NewSafetyChecker EXCEPT !.lock = c]
                       ELSE safety_checker
           raise(sc) ==
               /\ safety_checker' = [sc EXCEPT !.lock = 0]
               /\ coro' = [coro EXCEPT ![c] =
                              [pc |-> "idle", op |-> req.op, req |-> req,
                               raised |-> TRUE, results |-> <<>>]]
       IN IF ~reload
          THEN /\ outcome = "ok"
               /\ coro' = [coro EXCEPT ![c].pc = "classify"]
               /\ UNCHANGED safety_checker
          ELSE CASE outcome = "from_pretrained" -> raise(unloaded)
                 [] outcome = "create_transform" ->
                        raise([unloaded EXCEPT !.model = device])
                 [] OTHER ->
                        /\ safety_checker' =
                               [unloaded EXCEPT !.model = device,
                                                !.processor = device,
                                                !.current_device = device]
                        /\ coro' = [coro EXCEPT ![c].pc = "classify"]
    /\ UNCHANGED <<fsVars, safe_seeds_cache, wsVars, executorVars,
                   model_load_lock, rescan_lock, now>>

\* The try block and its finally in thread c: the results, unload_model(),
\* and the end of the "with self._lock" block.
CheckClassify(c, fails) ==
    /\ coro[c].pc = "classify"
    /\ safety_checker.lock = c
    /\ LET req == coro[c].req
           results ==
               IF req.op = "check_image"
               THEN <<check_image(files, req.image_paths[1], fails)>>
               ELSE check_batch(files, req.image_paths, req.batch_size, fails)
       IN coro' = [coro EXCEPT ![c] =
                      [pc |-> "idle", op |-> req.op, req |-> req,
                       raised |-> FALSE, results |-> results]]
    /\ safety_checker' = NewSafetyChecker
    /\ UNCHANGED <<fsVars, safe_seeds_cache, wsVars, executorVars,
                   model_load_lock, rescan_lock, now>>

\* Threads that use the checker side by side.
NextSafety ==
    \E c \in Callers :
        \/ \E req \in CheckRequests : CheckAcquire(c, req)
        \/ \E outcome \in {"ok", "from_pretrained", "create_transform"} :
               CheckLoadModel(c, outcome)
        \/ \E fails \in BOOLEAN : CheckClassify(c, fails)

SpecSafety == InitFrames /\ [][NextSafety]_vars

\* ------------------------------------------------------ GET /seeds/image

\* GET /seeds/image/{filename} for request c: 404 for a name without a
\* record, 403 for an unsafe record, 404 when the record's file is gone,
\* and otherwise a FileResponse with what the file at the record's path
\* holds now.
get_seed_image(c, filename) ==
    /\ coro[c].pc = "idle"
    /\ LET response(status, body) ==
               [pc |-> "idle", op |-> "get_seed_image", filename |-> filename,
                status |-> status, body |-> body]
           seed_data == safe_seeds_cache[filename]
       IN coro' = [coro EXCEPT ![c] =
              IF filename \notin DOMAIN safe_seeds_cache THEN response(404, NoFile)
              ELSE IF ~seed_data.is_safe THEN response(403, NoFile)
              ELSE IF ~Exists(files, seed_data.path) THEN response(404, NoFile)
              ELSE response(200, files[seed_data.path])]
    /\ UNCHANGED <<fsVars, safe_seeds_cache, wsVars, executorVars,
                   model_load_lock, rescan_lock, now, safety_checker>>

\* Seed images are asked for while the seed directories change and are
\* scanned again.
NextImage ==
    \/ \E c \in Callers, f \in Names : get_seed_image(c, f)
    \/ \E force_full \in BOOLEAN : rescan_seeds_endpoint(force_full)
    \/ \E p \in Paths, c \in Contents : EnvWrite(p, c)
    \/ \E p \in Paths : EnvRemove(p)

SpecImage == InitFrames /\ [][NextImage]_vars

\* ------------------------------------- the engine calls on the cuda thread

\* Coroutine c calls load_engine(m), load_seed_from_file for the default
\* seed, reset_state or generate_frame, up to its first await: the checks on
\* the event loop, and the first task handed to the cuda thread.  The loop
\* reads the manager as it is now; the task runs when the thread gets to it.
EngineCall(c, op, m) ==
    /\ coro[c].pc = "idle"
    /\ LET submit(site, r) ==
               /\ cuda_queue' = Append(cuda_queue, [caller |-> c, site |-> site])
               /\ coro' = [coro EXCEPT ![c] = r]
           return(error) ==
               /\ coro' = [coro EXCEPT ![c] = [pc |-> "idle", op |-> op, raised |-> error]]
               /\ UNCHANGED cuda_queue
           requested_model == normalize_model_uri(world_engine, m)
       IN CASE op = "load_engine" ->
                 /\ model_load_lock = 0
                 /\ IF world_engine.engine # None
                       /\ requested_model = world_engine.model_uri
                    THEN return("") /\ UNCHANGED model_load_lock
                    ELSE /\ model_load_lock' = c
                         /\ submit(IF world_engine.engine # None
                                   THEN "unload" ELSE "free_cuda_memory",
                                   [pc |-> "await", op |-> op,
                                    requested_model |-> requested_model,
                                    dtype |-> 1, last_error |-> ""])
            [] op = "load_seed" ->
                 /\ m = ""
                 /\ submit("load_seed", [pc |-> "await", op |-> op])
                 /\ UNCHANGED model_load_lock
            [] op = "reset_state" ->
                 /\ m = ""
                 /\ IF world_engine.engine = None
                    THEN return("WorldEngine is not loaded")
                    ELSE IF world_engine.seed_frame = None
                    THEN return("Seed frame is not set")
                    ELSE submit("reset", [pc |-> "await", op |-> op])
                 /\ UNCHANGED model_load_lock
            [] OTHER ->
                 /\ op = "generate_frame" /\ m = ""
                 /\ IF world_engine.engine = None
                    THEN return("WorldEngine is not loaded")
                    ELSE /\ world_engine.engine.generated < N_FRAMES
                         /\ submit("gen_frame", [pc |-> "await", op |-> op])
                 /\ UNCHANGED model_load_lock
    /\ UNCHANGED <<fsVars, safe_seeds_cache, wsVars, cuda_running, pool_running,
                   loop_running, call, ticket, rescan_lock, now, safety_checker>>

\* The cuda thread runs the oldest task of its queue and the coroutine that
\* awaits it goes on to its next await or to its end.  A lambda reads
\* self.engine when it runs: with no engine it raises AttributeError.
\* engine.reset was bound when it was handed over: it resets the engine of
\* that time.  outcome is what WorldEngine(...) does in a construct task.
CudaRun(outcome) ==
    /\ cuda_queue # <<>>
    /\ LET task == Head(cuda_queue)
           c == task.caller
           r == coro[c]
           loaded == world_engine.engine # None
           submit(site, nr) ==
               /\ cuda_queue' = Append(Tail(cuda_queue), [caller |-> c, site |-> site])
               /\ coro' = [coro EXCEPT ![c] = nr]
           return(error) ==
               /\ cuda_queue' = Tail(cuda_queue)
               /\ coro' = [coro EXCEPT ![c] = [pc |-> "idle", op |-> r.op, raised |-> error]]
           unlock == model_load_lock' = 0
           keep == UNCHANGED model_load_lock
       IN CASE task.site = "unload" /\ r.last_error = "" ->
                 /\ outcome = "ok"
                 /\ world_engine' = unload_engine(world_engine)
                 /\ submit("free_cuda_memory", r) /\ keep
            [] task.site = "unload" /\ r.last_error # "" ->
                 /\ outcome = "ok"
                 /\ world_engine' = unload_engine(world_engine)
                 /\ IF r.last_error = "OutOfMemoryError" /\ r.dtype < Len(dtype_attempts)
                    THEN submit("construct", [r EXCEPT !.dtype = @ + 1]) /\ keep
                    ELSE return(r.last_error) /\ unlock
            [] task.site = "free_cuda_memory" ->
                 /\ outcome = "ok"
                 /\ UNCHANGED world_engine
                 /\ submit("construct", r) /\ keep
            [] task.site = "construct" ->
                 /\ outcome \in AttemptOutcomes
                 /\ IF outcome = "ok"
                    THEN /\ world_engine' =
                                [world_engine EXCEPT !.engine = NewEngine(r.requested_model),
                                                     !.model_uri = r.requested_model]
                         /\ return("") /\ unlock
                    ELSE /\ UNCHANGED world_engine
                         /\ submit("unload", [r EXCEPT !.last_error = outcome]) /\ keep
            [] task.site = "load_seed" ->
                 /\ outcome = "ok"
                 /\ world_engine' = [world_engine EXCEPT !.seed_frame = [content |-> 1]]
                 /\ return("") /\ keep
            [] task.site = "reset" ->
                 /\ outcome = "ok"
                 /\ world_engine' =
                        IF loaded
                        THEN [world_engine EXCEPT !.engine =
                                 [@ EXCEPT !.generated = 0, !.appended = None]]
                        ELSE world_engine
                 /\ submit("append_frame", r) /\ keep
            [] task.site = "append_frame" ->
                 /\ outcome = "ok"
                 /\ IF loaded
                    THEN /\ world_engine' =
                                [world_engine EXCEPT !.engine =
                                    [@ EXCEPT !.appended = world_engine.seed_frame]]
                         /\ submit("set_prompt", r)
                    ELSE UNCHANGED world_engine /\ return("AttributeError")
                 /\ keep
            [] task.site = "set_prompt" ->
                 /\ outcome = "ok"
                 /\ IF loaded
                    THEN /\ world_engine' =
                                [world_engine EXCEPT !.engine =
                                    [@ EXCEPT !.prompt = world_engine.current_prompt]]
                         /\ return("")
                    ELSE UNCHANGED world_engine /\ return("AttributeError")
                 /\ keep
            [] OTHER ->
                 /\ task.site = "gen_frame" /\ outcome = "ok"
                 /\ IF loaded
                    THEN world_engine' = gen_frame(world_engine) /\ return("")
                    ELSE UNCHANGED world_engine /\ return("AttributeError")
                 /\ keep
    /\ UNCHANGED <<fsVars, safe_seeds_cache, session, clientVars, historyVars,
                   cuda_running, pool_running, loop_running, call, ticket,
                   rescan_lock, now, safety_checker>>

\* Coroutines of several sessions that use the one engine manager.
NextEngine ==
    \/ \E c \in Callers :
          \/ \E m \in Models : EngineCall(c, "load_engine", m)
          \/ \E op \in {"load_seed", "reset_state", "generate_frame"} :
                 EngineCall(c, op, "")
    \/ \E outcome \in AttemptOutcomes : CudaRun(outcome)

SpecEngine == InitFrames /\ [][NextEngine]_vars

\* ------------------------------------------------------------------ claims

\* C1: whatever path filled the seed slot, the file content that was read
\* for it had the SHA-256 the session verified against the cache.  Fails:
\* between the await of compute_file_hash and the read on the cuda thread
\* the file can change.
C1_SeedMatchesVerifiedHash ==
    seed_origin # None => seed_origin.disk_hash = seed_origin.checked_hash

C3_SafeRecordsFromClassifier ==
    \A f \in DOMAIN safe_seeds_cache :
        safe_seeds_cache[f].is_safe =>
            \E c \in Contents :
                IsSafe(c) /\ safe_seeds_cache[f].hash = compute_file_hash(c)

\* C4: a frame a session sends after an earlier one has a greater frame_id.
\* Fails: the id is the session counter, which every reset sets to zero.
C4_FrameIdsIncrease ==
    [][\A s \in Sessions :
        (session[s].pc = "gen" /\ out'[s] # <<>> /\ out'[s][1].type = "frame"
            /\ emitted_id[s] # -1)
        => out'[s][1].frame_id > emitted_id[s]]_vars

\* C5: when the control case hands a call to gen_frame the session counter
\* is below N_FRAMES - 1, and a counter that had reached N_FRAMES - 2 was
\* set back to zero by a reset of the engine first.
C5_ResetBeforeCeiling ==
    [][\A s \in Sessions :
        (session[s].pc # "gen" /\ session'[s].pc = "gen") =>
            /\ session'[s].frame_count < N_FRAMES - 1
            /\ session[s].frame_count >= N_FRAMES - 2 =>
                /\ session'[s].frame_count = 0
                /\ world_engine'.engine.generated = 0
                /\ out'[s] = <<Status("reset")>>]_vars

\* C5's case: a control is at gen_frame right after the auto-reset.
C5_Witness ==
    \E s \in Sessions :
        /\ session[s].pc = "gen"
        /\ out[s] = <<Status("reset")>>
        /\ session[s].frame_count = 0
        /\ emitted_id[s] = N_FRAMES - 2

\* C6: the engine never holds more than N_FRAMES - 2 frames generated
\* since its last reset.  Fails: set_model for the loaded model sets the
\* session counter to zero and does not reset the engine.
C6_EngineWithinCeiling ==
    world_engine.engine # None => world_engine.engine.generated <= N_FRAMES - 2

\* C7: at most one call runs on the cuda thread, every engine call that
\* runs is there, and calls start in the order they were submitted.
C7_OneEngineCallInOrder ==
    /\ Cardinality(cuda_running) <= 1
    /\ \A t \in pool_running \cup loop_running : t.site \notin EngineCalls
    /\ \A t \in cuda_running : \A i \in DOMAIN cuda_queue :
           t.ticket < cuda_queue[i].ticket
    /\ \A i, j \in DOMAIN cuda_queue :
           i < j => cuda_queue[i].ticket < cuda_queue[j].ticket

\* C7's case: one engine call runs while another session's call waits.
C7_Witness ==
    /\ \E t \in cuda_running : t.site = "gen_frame"
    /\ \E i \in DOMAIN cuda_queue :
           cuda_queue[i].site \in EngineCalls
           /\ \A t \in cuda_running : t.caller # cuda_queue[i].caller

\* C8: every classifier call runs on the cuda thread, and none runs on the
\* event loop or a pool thread while an engine call runs.  Fails: the
\* classifier is called through asyncio.to_thread or directly in the
\* handlers, never through the cuda executor.
C8_SafetyOnGpuWorker ==
    /\ \A t \in pool_running \cup loop_running : t.site \notin SafetyCalls
    /\ ~ /\ \E t \in pool_running \cup loop_running : t.site \in SafetyCalls
         /\ \E t \in cuda_running : t.site \in EngineCalls

\* C9: a drain that found k >= 1 controls and nothing else leads to one
\* gen_frame with the last control's buttons and mouse delta, and the frame
\* echoes that control's ts with a frame_id one above the last frame's.
\* Fails on the id: after a reset the counter starts again (see C4).
C9_ControlCoalescing ==
    [][\A s \in Sessions :
        LET k == Len(drained[s])
            last == drained[s][k]
        IN (/\ session[s].pc = "gen" /\ k >= 1
            /\ \A i \in 1..k : drained[s][i].type = "control"
            /\ out'[s] # <<>> /\ out'[s][1].type = "frame")
           => /\ session[s].ctrl.input = CtrlInput(last)
              /\ world_engine'.engine.generated = world_engine.engine.generated + 1
              /\ out'[s] = <<Frame(emitted_id[s] + 1, last.ts)>>]_vars

\* C10: when a drain of a running, un-paused session lets go of the control
\* it kept and no later control is buffered, that control is what the drain
\* returns.  Fails: a non-control message is returned at once and the
\* control kept so far is dropped.
C10_LastControlWins ==
    [][\A s \in Sessions :
        (/\ session[s].pc = "drain" /\ ~session[s].paused
         /\ session[s].latest # None
         /\ session'[s].pc = "dispatch"
         /\ session'[s].msg.type # "pause"
         /\ \A i \in DOMAIN inbox'[s] : inbox'[s][i].type # "control")
        => session'[s].msg = session[s].latest]_vars

\* C11: in the game loop the drain takes the oldest buffered message only;
\* a message that is not a control goes to the match as it is, nothing is
\* taken from the buffer while it is handled, its own case runs once, and
\* the loop comes back to the drain with the message gone.
C11_MessagesInOrder ==
    [][\A s \in Sessions :
        LET r == session[s]
            q == session'[s]
            running == {"drain", "dispatch", "model_load", "seed_hash", "seed_load"}
            live == r.ctx \in {"live_set_model", "prompt_with_seed"} \/ r.pc \in {"drain", "dispatch"}
        IN /\ (live /\ r.pc \in running /\ q.pc # "closed" /\ inbox'[s] # inbox[s]
               /\ Len(inbox'[s]) <= Len(inbox[s]))
              => /\ r.pc = "drain" /\ inbox'[s] = Tail(inbox[s])
                 /\ Head(inbox[s]).type # "control"
                    => q.pc = "dispatch" /\ q.msg = Head(inbox[s])
           /\ (r.pc = "dispatch" /\ q # r) =>
                 /\ r.msg # None
                 /\ q.pc = "drain" => q.msg = None
                 /\ r.msg.type = "pause" => q.pc = "drain" /\ q.paused
                 /\ r.msg.type = "resume" => q.pc = "drain" /\ ~q.paused
                 /\ r.msg.type = "reset" =>
                        \/ q.pc = "closed"
                        \/ /\ q.pc = "drain" /\ q.frame_count = 0
                           /\ out'[s] = <<Status("reset")>>
                           /\ world_engine'.engine.generated = 0
                 /\ r.msg.type = "prompt" =>
                        /\ q.pc = "drain"
                        /\ world_engine'.current_prompt =
                              IF r.msg.prompt \in {"", " "} THEN DEFAULT_PROMPT
                              ELSE r.msg.prompt
                 /\ r.msg.type = "prompt_with_seed" =>
                        \/ q.pc = "seed_hash" /\ q.req.filename = r.msg.filename
                        \/ q.pc = "drain" /\ out'[s] # <<>> /\ out'[s][1].type = "error"
                 /\ r.msg.type = "set_model" =>
                        \/ q.pc = "model_load" /\ q.req.model = r.msg.model
                        \/ q.pc = "drain" /\ out'[s] = <<ErrorMsg("Missing model id")>>]_vars

\* C11's case: pause was handled, the resume sent after it is at the match,
\* and a third message waits in the buffer.
C11_Witness ==
    \E s \in Sessions :
        /\ session[s].pc = "dispatch" /\ session[s].paused
        /\ session[s].msg.type = "resume"
        /\ inbox[s] # <<>> /\ Head(inbox[s]).type = "reset"

\* C12: in what the handshake sends after the seed is loaded, no loading
\* status comes after init, and the frame with frame_id 0 comes after
\* ready.  Fails: the code sends init, then loading, then frame 0, then
\* ready.
C12_HandshakeOrder ==
    \A s \in Sessions :
        \A i, j \in DOMAIN out[s] :
            /\ (out[s][i] = Status("init") /\ out[s][j] = Status("loading")) => j < i
            /\ (out[s][i].type = "frame" /\ out[s][i].frame_id = 0
                /\ out[s][j] = Status("ready")) => j < i

\* C13: when a seed request fails one of the four checks (filename not in
\* the cache, verdict unsafe, file missing, hash mismatch), on the handshake,
\* prompt_with_seed or set_model path, the session sends an error, is not
\* closed, and the seed slot, the session's frame counter and the engine's
\* frame history are what they were.  Fails: a file that goes away after
\* the existence check makes compute_file_hash raise, which ends a session
\* in the handshake; set_model empties the slot and the counter first.
C13_FailedSeedKeepsState ==
    [][\A s \in Sessions :
        LET r == session[s]
            q == session'[s]
            f == IF r.pc = "model_load"
                 THEN (IF r.req.filename # "" THEN r.req.filename
                       ELSE DEFAULT_INITIAL_SEED)
                 ELSE IF r.pc = "dispatch" THEN r.msg.filename
                 ELSE Head(inbox[s]).filename
            looked_up ==
                \/ /\ r.pc = "handshake" /\ inbox[s] # <<>>
                   /\ Head(inbox[s]).type = "set_initial_seed"
                   /\ inbox'[s] = Tail(inbox[s])
                   /\ q.pc # "closed" \/ out'[s] # <<>>
                \/ /\ r.pc = "model_load" /\ q # r
                   /\ world_engine'.engine # None
                \/ /\ r.pc = "dispatch" /\ r.msg.type = "prompt_with_seed" /\ q # r
            rejected ==
                /\ looked_up /\ f # ""
                /\ \/ f \notin DOMAIN safe_seeds_cache
                   \/ ~safe_seeds_cache[f].is_safe
                   \/ files[safe_seeds_cache[f].path] = NoFile
            hash_failed ==
                /\ r.pc = "seed_hash" /\ q # r
                /\ \/ files[r.req.file_path] = NoFile
                   \/ compute_file_hash(files[r.req.file_path]) # r.req.cached_hash
            history(we) == IF we.engine = None THEN <<0, None>>
                           ELSE <<we.engine.generated, we.engine.appended>>
        IN (rejected \/ hash_failed) =>
            /\ q.pc # "closed"
            /\ \E i \in DOMAIN out'[s] : out'[s][i].type = "error"
            /\ world_engine'.seed_frame = world_engine.seed_frame
            /\ q.frame_count = r.frame_count
            /\ history(world_engine') = history(world_engine)]_vars

\* C14: a session leaves the handshake loop only with a seed that this
\* session verified and loaded.  Fails: the seed slot belongs to the
\* process; a session that waits in the handshake leaves the loop on its
\* next message once another session has filled the slot.
C14_NoSeedLeak ==
    [][\A s \in Sessions :
        (/\ \/ session[s].pc = "handshake"
            \/ session[s].ctx \in {"set_initial_seed", "set_model"}
         /\ session'[s].pc = "init")
        => seed_origin' # None /\ seed_origin'.by = s]_vars

\* C15: when the load of a set_model for another model, sent by a running
\* session, is done, the seed slot is empty, waiting_for_seed has been
\* sent, and no seed is loaded that the client has not supplied.  When the
\* session is back in the game loop after the switch the slot is still
\* empty unless the client sent a seed.  Fails: handle_model_request goes
\* on to load default.png by itself and the game goes on with it.
C15_SwitchWaitsForSeed ==
    [][\A s \in Sessions :
        LET r == session[s]
            q == session'[s]
        IN /\ (/\ r.pc = "model_load" /\ r.ctx = "live_set_model"
               /\ normalize_model_uri(world_engine, r.req.model) # world_engine.model_uri
               /\ q # r /\ q.pc # "closed")
              => /\ world_engine'.seed_frame = None
                 /\ \E i \in DOMAIN out'[s] : out'[s][i] = Status("waiting_for_seed")
                 /\ q.pc # "seed_hash"
           /\ (r.ctx = "live_set_model" /\ q.pc = "drain")
              => world_engine'.seed_frame = None]_vars

\* C16: while a load of the engine started for a session is in flight, no
\* more than five seconds go by without a loading status to that session.
\* Fails: the default-model load after the handshake sends loading once
\* and awaits load_engine without a timeout.
C16_LoadingEveryFiveSeconds ==
    \A s \in Sessions :
        session[s].pc \in {"model_load", "default_load"} => session[s].req.quiet <= 1

\* C17: a session still in the handshake loop has been there for no more
\* than 60 seconds, whatever its client sent.  Fails: the timeout is that
\* of one receive_text and starts again with every message.
C17_HandshakeWithinTimeout ==
    \A s \in Sessions :
        session[s].pc = "handshake" => session[s].age <= HANDSHAKE_TIMEOUT

\* C18: a gen_frame failure whose lower-cased text holds "cuda", "cublas",
\* "graph capture" or "offset increment", and no other, starts a recovery.
\* A recovery that succeeds has reset the engine, sends status reset with
\* the message "Recovered from CUDA error - engine reset" and leaves the
\* session open, not paused, with an engine and a seed for the next
\* control; one that fails sends an error and closes the session.  Any
\* other failure leaves the engine alone, is sent as an error and closes
\* the session.
C18_CudaRecovery ==
    [][\A s \in Sessions :
        LET r == session[s]
            q == session'[s]
            matched(e) ==
                \/ \E i \in DOMAIN e : lower(e)[i] \in {"cuda", "cublas"}
                \/ \E i \in DOMAIN e : i < Len(e) /\
                       <<lower(e)[i], lower(e)[i + 1]>> \in
                           {<<"graph", "capture">>, <<"offset", "increment">>}
        IN /\ (r.pc = "gen" /\ q.pc = "recover") =>
                 /\ matched(q.req.error)
                 /\ out'[s] = <<>> /\ world_engine' = world_engine
           /\ (r.pc = "gen" /\ q.pc = "closed") =>
                 /\ \E e \in GenErrors : ~matched(e) /\ out'[s] = <<ErrorMsg(e)>>
                 /\ world_engine' = world_engine
           /\ (r.pc = "recover" /\ q # r) =>
                 \/ /\ q.pc = "drain" /\ ~q.paused
                    /\ out'[s] = <<RecoveredStatus>>
                    /\ world_engine'.engine # None
                    /\ world_engine'.seed_frame # None
                    /\ world_engine'.engine.generated = 0
                    /\ world_engine'.engine.appended = world_engine.seed_frame
                    /\ world_engine'.engine.prompt = world_engine.current_prompt
                 \/ /\ q.pc = "closed"
                    /\ out'[s] =
                         <<ErrorMsg("CUDA error - recovery failed. Please reconnect.")>>]_vars

\* C18's case: a session is back in the game loop after a recovery.
C18_Witness ==
    \E s \in Sessions :
        /\ session[s].pc = "drain"
        /\ out[s] = <<RecoveredStatus>>
        /\ session[s].frame_count > 0

\* C19: a session that reads a text that is not JSON answers with an error
\* and stays as it was: open, in the same loop, with the same seed slot,
\* frame counter and paused flag.  Fails: json.loads raises where no
\* handler catches it, and the exception ends the session.
C19_MalformedKeepsSession ==
    [][\A s \in Sessions :
        LET r == session[s]
            q == session'[s]
        IN (/\ r.pc \in {"handshake", "drain"} /\ inbox[s] # <<>>
            /\ json_loads_raises(Head(inbox[s]))
            /\ Len(inbox'[s]) < Len(inbox[s]) /\ out'[s] # <<>>)
           => /\ \E i \in DOMAIN out'[s] : out'[s][i].type = "error"
              /\ q.pc = r.pc
              /\ q.frame_count = r.frame_count /\ q.paused = r.paused
              /\ world_engine'.seed_frame = world_engine.seed_frame]_vars

\* C20: load_engine for the model that is loaded does nothing: the manager
\* (engine, model identifier, seed slot, warmed-up flag) is as before,
\* nothing is raised and no task goes to the cuda thread; a set_model for
\* the loaded model keeps the engine with its frames.
C20_SameModelNoOp ==
    [][/\ \A m \in Models \cup {""}, constructed \in Constructions :
            (/\ world_engine.engine # None
             /\ (IF m = "" THEN world_engine.model_uri ELSE m) = world_engine.model_uri)
            => LET r == load_engine(world_engine, m, constructed)
               IN r.we = world_engine /\ ~r.raised /\ r.tasks = <<>>
       /\ \A s \in Sessions :
            (/\ session[s].pc = "model_load" /\ session'[s] # session[s]
             /\ world_engine.engine # None
             /\ session[s].req.model = world_engine.model_uri)
            => /\ session'[s].pc # "closed"
               /\ world_engine'.engine = world_engine.engine
               /\ world_engine'.model_uri = world_engine.model_uri
               /\ world_engine'.engine_warmed_up = world_engine.engine_warmed_up]_vars

\* C20's case: a running session has asked for the model it plays on; the
\* load is done and the engine still holds its seed and is warmed up.
C20_Witness ==
    \E s \in Sessions :
        /\ session[s].pc = "seed_hash" /\ session[s].ctx = "live_set_model"
        /\ world_engine.engine # None
        /\ world_engine.engine.appended # None
        /\ world_engine.engine_warmed_up

\* C21: engine construction is tried with bfloat16 first and with float16
\* if and only if the bfloat16 attempt ran out of memory, so at most twice.
\* When the construction fails (another exception, or out of memory both
\* times) the cleanup task is run, the error is raised, the manager has no
\* engine and is not warmed up, and model_uri is what it was; a session
\* that awaited the load ends.
C21_DtypeFallback ==
    [][/\ \A m \in Models \cup {""}, constructed \in Constructions :
            ~(/\ world_engine.engine # None
              /\ normalize_model_uri(world_engine, m) = world_engine.model_uri)
            => LET r == load_engine(world_engine, m, constructed)
                   fails == \/ constructed[1] = "Exception"
                            \/ /\ constructed[1] = "OutOfMemoryError"
                               /\ constructed[2] # "ok"
               IN /\ Len(r.tried) \in {1, 2}
                  /\ r.tried[1] = "bfloat16"
                  /\ Len(r.tried) = 2 <=> constructed[1] = "OutOfMemoryError"
                  /\ Len(r.tried) = 2 => r.tried[2] = "float16"
                  /\ r.raised <=> fails
                  /\ fails => /\ r.tasks[Len(r.tasks)] = "unload"
                              /\ r.error # ""
                              /\ r.we.engine = None
                              /\ ~r.we.engine_warmed_up
                              /\ r.we.model_uri = world_engine.model_uri
       /\ \A s \in Sessions :
            (/\ session[s].pc \in {"model_load", "default_load"}
             /\ session'[s].pc # session[s].pc)
            => /\ world_engine'.engine = None <=> session'[s].pc = "closed"
               /\ session'[s].pc = "closed"
                  => /\ ~world_engine'.engine_warmed_up
                     /\ world_engine'.model_uri = world_engine.model_uri]_vars

\* C21's case: a session waits for the load of another model than the one
\* that is loaded and warmed up, and the construction runs out of memory
\* with both dtypes.
C21_Witness ==
    \E s \in Sessions :
        /\ session[s].pc = "model_load"
        /\ world_engine.engine # None /\ world_engine.engine_warmed_up
        /\ session[s].req.model # world_engine.model_uri
        /\ LET r == load_engine(world_engine, session[s].req.model,
                                [i \in DOMAIN dtype_attempts |-> "OutOfMemoryError"])
           IN /\ r.raised /\ r.tried = dtype_attempts
              /\ r.we.engine = None /\ ~r.we.engine_warmed_up
              /\ r.we.model_uri = world_engine.model_uri

\* C22: loads are serialized by the one _model_load_lock: at most one
\* coroutine is between taking the lock and leaving load_engine (unload,
\* cleanup, construction), it is the holder of the lock, and a coroutine
\* that was waiting compares its model with the loaded one only in the step
\* in which it finds the lock free, against the manager as it is then.
C22_LoadsSerialized ==
    [][LET loading(cs) == {c \in Callers :
                              cs[c].pc \in {"unload", "free", "construct", "cleanup"}}
       IN /\ Cardinality(loading(coro')) <= 1
          /\ \A c \in loading(coro') : model_load_lock' = c
          /\ loading(coro') = {} => model_load_lock' = 0
          /\ \A c \in Callers :
                (coro[c].pc = "lock" /\ coro'[c].pc # "lock")
                => /\ model_load_lock = 0
                   /\ LET requested_model ==
                              normalize_model_uri(world_engine, coro[c].model_uri)
                          same == /\ world_engine.engine # None
                                  /\ requested_model = world_engine.model_uri
                      IN IF same
                         THEN coro'[c] = [pc |-> "idle", result |-> "already"]
                         ELSE /\ c \in loading(coro')
                              /\ coro'[c].requested_model = requested_model]_vars

\* C22's case: one coroutine constructs an engine under the lock while
\* another one, which asked for the current model before, waits for the
\* lock.
C22_Witness ==
    \E c, d \in Callers :
        /\ coro[c].pc = "construct" /\ model_load_lock = c
        /\ coro[d].pc = "lock" /\ coro[d].model_uri = ""
        /\ coro[c].requested_model # world_engine.model_uri

\* C24: validate_and_update_cache called twice in a row, with no change of
\* the seed directories in between, returns the second time the snapshot
\* it returned the first time (same records with their checked_at, same
\* last_scan) and gives nothing to the classifier, whatever the blob and
\* the directories are when the first call starts.
C24_ValidateIdempotent ==
    LET first == validate_and_update_cache(files, load_seeds_cache, now + 1)
        blob == IF first.saved
                THEN [files |-> first.files, last_scan |-> first.last_scan]
                ELSE load_seeds_cache
        second == validate_and_update_cache(files, blob, now + 2)
    IN /\ second.files = first.files
       /\ second.last_scan = first.last_scan
       /\ second.classified = {}

C23_UploadedSeedListed ==
    \A c \in Callers, f \in Names :
        (/\ coro[c].pc = "idle" /\ "op" \in DOMAIN coro[c]
         /\ coro[c].op = "upload" /\ coro[c].status = 200
         /\ coro[c].filename = f /\ coro[c].is_safe
         /\ Exists(files, <<UPLOADS_DIR, f>>)
         /\ compute_file_hash(files[<<UPLOADS_DIR, f>>]) = coro[c].hash
         /\ \A d \in Callers :
               ~(coro[d].pc \in {"unlink", "uploaded"} /\ coro[d].filename = f)
         /\ rescan_lock = 0)
        => /\ f \in DOMAIN safe_seeds_cache
           /\ Exists(files, safe_seeds_cache[f].path)
           /\ safe_seeds_cache[f].hash
                 = compute_file_hash(files[safe_seeds_cache[f].path])

\* C27: when an upload, a delete, a rescan or a validation completes
\* successfully, the "files" mapping of the blob equals safe_seeds_cache,
\* whatever other requests ran before or meanwhile.
C27_BlobEqualsMemory ==
    [][\A c \in Callers :
          (/\ coro[c].pc \notin {"idle", "stopped"} /\ coro'[c].pc = "idle"
           /\ coro'[c].op \in {"upload", "delete", "rescan"}
           /\ coro'[c].status = 200)
          => cache_file' = safe_seeds_cache']_vars

C28_SaveAtomic ==
    [][(/\ \E c \in Callers : coro[c].pc # "stopped"
        /\ \A c \in Callers : coro'[c].pc = "stopped")
       => \/ Truncated \notin DOMAIN cache_file'
          \/ load_seeds_cache.files = <<>>]_vars

\* C29: rescans and validations exclude each other (at most one coroutine
\* is inside one, and it holds rescan_lock); safe_seeds_cache is never a
\* snapshot under construction: a scan leaves it alone until it ends, and
\* then puts in the whole result, one record for every entry it kept and
\* every file it scanned; and a list is answered only when no scan holds
\* rescan_lock.
C29_ScansExclusive ==
    [][LET scanning(cs) == {c \in Callers : cs[c].pc \in {"verify", "scan"}}
       IN /\ Cardinality(scanning(coro')) <= 1
          /\ \A c \in scanning(coro') : rescan_lock' = c
          /\ scanning(coro') = {} => rescan_lock' = 0
          /\ \A c \in Callers :
                /\ (c \in scanning(coro') /\ coro'[c] # coro[c])
                   => safe_seeds_cache' = safe_seeds_cache
                /\ (coro[c].pc = "scan" /\ coro'[c].pc = "idle")
                   => /\ DOMAIN safe_seeds_cache'
                            = DOMAIN coro[c].cache.files \cup DOMAIN coro[c].todo
                      /\ \A f \in DOMAIN coro[c].cache.files \ DOMAIN coro[c].todo :
                            safe_seeds_cache'[f] = coro[c].cache.files[f]
                /\ (coro'[c] # coro[c] /\ coro'[c].pc = "idle"
                        /\ "op" \in DOMAIN coro'[c] /\ coro'[c].op = "list")
                   => /\ rescan_lock = 0 /\ scanning(coro) = {}
                      /\ coro'[c].seeds = safe_seeds_cache]_vars

\* C29's case: a list has been answered with the snapshot of a scan that
\* another coroutine had made before, and a new scan is under way.
C29_Witness ==
    \E c, d \in Callers :
        /\ coro[c].pc = "idle" /\ "op" \in DOMAIN coro[c] /\ coro[c].op = "list"
        /\ DOMAIN coro[c].seeds = {"default.png"}
        /\ coro[c].seeds # safe_seeds_cache
        /\ coro[d].pc = "scan" /\ rescan_lock = d

\* C30 as stated: a coroutine that is suspended (it awaits work of the
\* cuda thread, file hashes or verdicts) holds neither _model_load_lock
\* nor rescan_lock.
C30_NoAwaitUnderGuard ==
    \A c \in Callers :
        coro[c].pc \in {"unload", "free", "construct", "cleanup", "verify", "scan"}
        => model_load_lock # c /\ rescan_lock # c

\* C30, amended: each guard is held from the first to the last await of
\* the invocation it protects and not longer.  _model_load_lock is held by
\* c exactly while c awaits the unload, the cleanup or a construction of
\* its load_engine, rescan_lock exactly while c awaits the hashes and
\* verdicts of its scan; a coroutine that has returned or raised holds
\* nothing.
C30_GuardHeldAcrossAwaits ==
    /\ \A c \in Callers :
          /\ model_load_lock = c
             <=> coro[c].pc \in {"unload", "free", "construct", "cleanup"}
          /\ rescan_lock = c <=> coro[c].pc \in {"verify", "scan"}
    /\ model_load_lock \in Callers \cup {0}
    /\ rescan_lock \in Callers \cup {0}

\* C30's case: one coroutine awaits the second construction of its load
\* with _model_load_lock in its hands, another one the hashes of a full
\* rescan with rescan_lock in its hands.
C30_Witness ==
    \E c, d \in Callers :
        /\ coro[c].pc = "construct" /\ coro[c].dtype = 2 /\ model_load_lock = c
        /\ coro[d].pc = "scan" /\ DOMAIN coro[d].todo # {} /\ rescan_lock = d

\* C31: every result check_image or check_batch returns has is_safe true
\* exactly when its low score is under one half (50 percent; a score of
\* exactly 50 is unsafe); an image that cannot be loaded gets the unsafe
\* default; and a result says safe only for an image that was loaded and
\* whose computed low score is under one half.
C31_VerdictRule ==
    [][\A c \in Callers :
          (coro[c].pc = "classify" /\ coro'[c].pc = "idle") =>
              LET req == coro[c].req
                  results == coro'[c].results
              IN \A i \in DOMAIN results :
                    LET content == files[req.image_paths[i]]
                    IN /\ results[i].is_safe <=> results[i].scores.low < 50
                       /\ content = NoFile => results[i] = UnsafeDefault
                       /\ results[i].is_safe =>
                              /\ content # NoFile
                              /\ results[i].scores.low = LowScore(content)
                              /\ LowScore(content) < 50]_vars

\* A thread has results of check_image or check_batch among which there are
\* a safe one, the default of an image that is not there, and an unsafe one
\* whose low score is exactly one half.
C31_Witness ==
    \E c \in Callers :
        /\ coro[c].pc = "idle" /\ "results" \in DOMAIN coro[c]
        /\ \E i, j, k \in DOMAIN coro[c].results :
              /\ coro[c].results[i].is_safe
              /\ coro[c].results[j] = UnsafeDefault
              /\ files[coro[c].req.image_paths[j]] = NoFile
              /\ coro[c].results[k].scores.low = 50
              /\ ~coro[c].results[k].is_safe

\* C32: check_batch returns as many results as it was given paths, and the
\* i-th result is the verdict of the i-th path (the unsafe default for a
\* path that does not load), whatever the batch size; when a batch fails
\* to be scored every result is the unsafe default.
C32_BatchAligned ==
    [][\A c \in Callers :
          (coro[c].pc = "classify" /\ coro'[c].pc = "idle"
              /\ coro[c].req.op = "check_batch") =>
              LET paths == coro[c].req.image_paths
                  results == coro'[c].results
                  verdict(p) ==
                      IF files[p] = NoFile THEN UnsafeDefault
                      ELSE [is_safe |-> LowScore(files[p]) < 50,
                            scores |-> predict_batch_values(<<files[p]>>)[1]]
              IN /\ Len(results) = Len(paths)
                 /\ \/ \A i \in DOMAIN paths : results[i] = verdict(paths[i])
                    \/ /\ \A i \in DOMAIN paths : results[i] = UnsafeDefault
                       /\ \E i \in DOMAIN paths : files[paths[i]] # NoFile]_vars

\* A batch of three paths with batch size 1 whose second image does not
\* load: the first result is safe, the second the default, the third the
\* verdict of the third image.
C32_Witness ==
    \E c \in Callers :
        /\ coro[c].pc = "idle" /\ "results" \in DOMAIN coro[c]
        /\ coro[c].req.op = "check_batch"
        /\ coro[c].req.batch_size = 1
        /\ Len(coro[c].results) = 3
        /\ files[coro[c].req.image_paths[2]] = NoFile
        /\ coro[c].results[1].is_safe
        /\ coro[c].results[2] = UnsafeDefault
        /\ coro[c].results[3].scores.low = 50

\* C33: when check_image or check_batch returns or raises, no classifier
\* model remains loaded, and at most one request is inside the checker.
C33_ModelUnloadedAfterRequest ==
    [][/\ \A c \in Callers :
            (coro[c].pc \in {"load_model", "classify"} /\ coro'[c].pc = "idle")
                => safety_checker'.model = None
       /\ Cardinality({c \in Callers : coro[c].pc \in {"load_model", "classify"}}) <= 1]_vars

\* C34: GET /seeds/image/{f} answers 404 when f has no record and 403 when
\* the record is unsafe, and it returns the file's bytes only if the record
\* is safe and the hash of what the file holds now equals the record's hash.
C34_ImageVerifiedAtUse ==
    [][\A c \in Callers :
          (coro'[c] # coro[c] /\ "op" \in DOMAIN coro'[c]
              /\ coro'[c].op = "get_seed_image") =>
              LET f == coro'[c].filename
              IN /\ f \notin DOMAIN safe_seeds_cache => coro'[c].status = 404
                 /\ (f \in DOMAIN safe_seeds_cache /\ ~safe_seeds_cache[f].is_safe)
                        => coro'[c].status = 403
                 /\ coro'[c].status = 200 =>
                        /\ f \in DOMAIN safe_seeds_cache
                        /\ safe_seeds_cache[f].is_safe
                        /\ compute_file_hash(coro'[c].body) = safe_seeds_cache[f].hash]_vars

\* C35: when the classifier fails during an upload of f, then at the
\* upload's return uploads/f does not exist, the in-memory and the on-disk
\* snapshot are what they were, and no safe record of the snapshot points
\* at uploads/f, the path the upload overwrote and removed.
C35_FailedUploadLeavesNothing ==
    [][\A c \in Callers :
          (coro[c].pc = "uploaded" /\ Exists(files, <<UPLOADS_DIR, coro[c].filename>>)
              /\ coro'[c].pc = "idle" /\ coro'[c].status = 500) =>
              LET file_path == <<UPLOADS_DIR, coro[c].filename>>
              IN /\ files'[file_path] = NoFile
                 /\ safe_seeds_cache' = safe_seeds_cache
                 /\ cache_file' = cache_file
                 /\ \A g \in DOMAIN safe_seeds_cache' :
                        safe_seeds_cache'[g].is_safe =>
                            safe_seeds_cache'[g].path # file_path]_vars

\* C37: the seed a session's reset appends to the engine is the seed that
\* this session loaded last: the reset of a running session does not fail
\* for want of a seed, and the slot it reads was filled by the session
\* itself, whatever the other connections do.
C37_ResetUsesOwnSeed ==
    [][\A s \in Sessions :
          (session[s].pc = "dispatch" /\ session[s].msg.type = "reset"
              /\ session'[s] # session[s]) =>
              /\ world_engine.seed_frame # None
              /\ seed_origin # None /\ seed_origin.by = s
              /\ session'[s].pc # "closed"]_vars

\* C38: the engine generates a frame for a control message only after it
\* has been reset and seeded with append_frame since it was constructed.
C38_SeededBeforeFrames ==
    [][\A s \in Sessions :
          (session[s].pc = "gen" /\ session'[s].pc # "gen") =>
              /\ world_engine.engine # None
              /\ world_engine.engine.appended # None]_vars

\* C36: between the engine.reset() and the engine.set_prompt() of one
\* reset_state invocation the cuda thread runs no engine call of any other
\* coroutine.
C36_ResetAtomic ==
    [][\A c \in Callers :
          ("op" \in DOMAIN coro[c] /\ coro[c].op = "reset_state"
              /\ coro[c].pc = "await"
              /\ \E i \in DOMAIN cuda_queue :
                    /\ cuda_queue[i].caller = c
                    /\ cuda_queue[i].site \in {"append_frame", "set_prompt"}
              /\ cuda_queue' # cuda_queue /\ Len(cuda_queue) > 0
              /\ Len(cuda_queue') <= Len(cuda_queue)) =>
              \/ Head(cuda_queue).caller = c
              \/ Head(cuda_queue).site = "load_seed"]_vars

\* C39: every gen_frame, reset, append_frame or set_prompt task the cuda
\* thread runs finds an engine loaded when it runs.
C39_TasksFindEngine ==
    [][(cuda_queue # <<>> /\ cuda_queue' # cuda_queue
           /\ Len(cuda_queue') <= Len(cuda_queue)
           /\ Head(cuda_queue).site \in {"gen_frame", "reset", "append_frame", "set_prompt"})
          => world_engine.engine # None]_vars

\* C40: no step of an upload or delete request creates, overwrites or
\* removes a file under default/, and the record keyed by a default seed's
\* filename keeps pointing at its file under default/.
C40_DefaultSeedsImmutable ==
    [][\A c \in Callers :
          (/\ coro'[c] # coro[c]
           /\ \/ coro[c].pc \in {"uploaded", "unlink"}
              \/ coro'[c].pc \in {"uploaded", "unlink"}
              \/ "op" \in DOMAIN coro'[c] /\ coro'[c].op \in {"upload", "delete"}) =>
              \A f \in Names :
                  LET p == <<DEFAULT_SEEDS_DIR, f>>
                  IN p \in Paths =>
                        /\ files'[p] = files[p]
                        /\ (f \in DOMAIN safe_seeds_cache
                               /\ safe_seeds_cache[f].path = p) =>
                              /\ f \in DOMAIN safe_seeds_cache'
                              /\ safe_seeds_cache'[f].path = p]_vars

====
